---- MODULE Spec2Model ----
(***************************************************************************)
(* Texas Hold'em engine of poker-bench: play_round, betting_round and      *)
(* process_betting_action of src/src/game.py, driven by the tournament     *)
(* loop of src/src/main.py.  The decision provider (player.action_func) is *)
(* an arbitrary responder: any of the four actions with any amount of      *)
(* Amounts.  Spec and SpecTournament keep the cards face down: any         *)
(* non-empty sub-list of the active players can win a showdown, as the     *)
(* shuffled deck decides.  SpecShowdown deals the cards and settles the    *)
(* round with evaluate_hand and best_hand_from_seven.  Chips are counted   *)
(* in the program's own units; stacks and proposed amounts are multiples   *)
(* of the small blind.  SpecScenario plays a round on a given shuffle,     *)
(* SpecDeck follows the deck through a round at a large table,             *)
(* SpecEvaluator and SpecBestOfSeven call the hand evaluator on its own,   *)
(* SpecHarness is run_games with its semaphore, and SpecIsolation runs     *)
(* tournaments side by side on one heap of objects.                        *)
(***************************************************************************)
EXTENDS Integers, Sequences, FiniteSets, TLC

\* ---------------------------------------------------------------- bounds
\* The players that can sit at the table, by Player.name: two or three play,
\* so that a raiser can face two opponents of different stacks.
Seats == <<"p1", "p2", "p3">>
PlayerIds == {Seats[i] : i \in 1..Len(Seats)}
\* A starting stack is 1..MaxStackUnits small blinds, the table holds at most
\* MaxTableUnits small blinds, a provider proposes 0..MaxRaiseUnits of them.
MaxStackUnits == 3
MaxTableUnits == 5
MaxRaiseUnits == 2
\* A tournament is capped at 0..MaxRounds rounds.
MaxRounds == 2
\* The showdown's cards come from the top DeckSize cards of the shuffled deck:
\* the board from the first BoardCards of them, the hole cards from the rest.
DeckSize == 12
BoardCards == 6

\* ------------------------------------------------------ program constants
SMALL_BLIND == 5
BIG_BLIND == 10

ChipUnit == SMALL_BLIND
NoPlayer == "nobody"
Stacks == {k * ChipUnit : k \in 1..MaxStackUnits}
Amounts == {k * ChipUnit : k \in 0..MaxRaiseUnits}
\* What a decision provider can answer: CHECK and FOLD carry amount 0 (the
\* engine never reads it), CALL and RAISE any amount of Amounts.
Responses ==
    {[action |-> a, amount |-> 0] : a \in {"check", "fold"}}
    \cup {[action |-> a, amount |-> m] : a \in {"call", "raise"}, m \in Amounts}

VARIABLES
    players,            \* the tournament's live list (rotated in place)
    chips,              \* Player.chips
    round_count,        \* collect_game_result: rounds played
    max_rounds,         \* collect_game_result's parameter
    eliminated_players, \* collect_game_result: players removed so far
    round_start_chips,  \* chips of every player when play_round was entered
    small_blind_player,
    big_blind_player,
    pot,
    current_bet,
    player_bets,        \* contribution of each player in this betting round
    active_players,     \* players still contesting the pot, in acting order
    players_to_act,     \* betting_round's queue
    players_actions,    \* betting_round's record, player -> ActionResponse
    action_response,    \* the response being processed in this iteration
    player,             \* the player whose decision is awaited
    phase,              \* betting_round_type of the current / last phase
    hand,               \* Player.hand: the hole cards (empty: face down)
    community_cards,    \* play_round's board (empty: face down)
    winners,            \* play_round: the showdown's winners
    winner,             \* GameResult.winner
    final_rankings,     \* GameResult.final_rankings
    pc,                 \* position in collect_game_result / play_round
    deck,               \* play_round's deck (empty: cards face down)
    burned,             \* the burn cards popped and dropped, in order
    starting_pot,       \* betting_round: the pot it was called with
    semaphore,          \* run_games: the semaphore's internal value
    n_games,            \* run_games' parameter
    tasks,              \* run_games: how many run_game() tasks are where
    game_results,       \* what the caller of run_games receives
    heap,               \* the objects of the process: id -> value
    games,              \* each concurrent tournament's local variables
    given_cards,        \* the argument handed to the hand evaluator
    returned_score      \* the evaluator's return value

engine_vars ==
    <<players, chips, round_count, max_rounds, eliminated_players,
      round_start_chips, small_blind_player, big_blind_player, pot,
      current_bet, player_bets, active_players, players_to_act,
      players_actions, action_response, player, phase, hand,
      community_cards, winners, winner, final_rankings, pc, deck, burned,
      starting_pot>>
harness_vars == <<semaphore, n_games, tasks, game_results>>
isolation_vars == <<heap, games>>
evaluator_vars == <<given_cards, returned_score>>
vars == <<engine_vars, harness_vars, isolation_vars, evaluator_vars>>

\* --------------------------------------------------------------- helpers
Range(s) == {s[i] : i \in 1..Len(s)}

RECURSIVE SumOver(_, _)
SumOver(f, S) ==
    IF S = {} THEN 0
    ELSE LET x == CHOOSE y \in S : TRUE IN f[x] + SumOver(f, S \ {x})

MinOf(S) == CHOOSE m \in S : \A x \in S : m <= x
MaxOf(S) == CHOOSE m \in S : \A x \in S : m >= x
Min2(a, b) == IF a <= b THEN a ELSE b

Remove(s, p) == SelectSeq(s, LAMBDA q : q # p)
IndexOf(s, p) == CHOOSE i \in 1..Len(s) : s[i] = p
Rotate(s, k) == SubSeq(s, k + 1, Len(s)) \o SubSeq(s, 1, k)

NoBets == [p \in PlayerIds |-> 0]
NoResponse ==
    [player |-> NoPlayer, action |-> "none", amount |-> 0,
     actual_amount_contributed |-> 0]
\* players_actions keeps, per player, the actual_amount_contributed of the
\* player's last response; the response's action and amount are kept for the
\* response just processed, in action_response.
NotRecorded == [player |-> NoPlayer, actual_amount_contributed |-> 0]
NoActions == [p \in PlayerIds |-> NotRecorded]
NoHands == [p \in PlayerIds |-> <<>>]

\* Sub-lists of s that keep s's order, as sets of kept positions.
SubLists(s) == {SelectSeq(s, LAMBDA q : q \in K) : K \in (SUBSET Range(s)) \ {{}}}

\* ------------------------------------------------------------ game logic
\* Faulty variant: the all-in test is missing.
all_players_all_in_missing(active) == FALSE

all_players_all_in(active) == \A p \in Range(active) : chips[p] = 0

\* Faulty variant: the cap is taken from the largest opposing stack.
max_callable_largest_opponent(raising_player, bets, active) ==
    IF Len(active) <= 1
    THEN bets[raising_player] + chips[raising_player]
    ELSE MaxOf({bets[p] + chips[p] : p \in Range(active) \ {raising_player}})

calculate_max_callable_amount(raising_player, bets, active) ==
    IF Len(active) <= 1
    THEN bets[raising_player] + chips[raising_player]
    ELSE MinOf({bets[p] + chips[p] : p \in Range(active) \ {raising_player}})

\* Faulty variant: the raise is capped by the raiser's own chips only.
effective_total_bet_own_cap_only(p, amount, bets, active) ==
    Min2(bets[p] + amount, bets[p] + chips[p])

effective_total_bet(p, amount, bets, active) ==
    LET max_callable == calculate_max_callable_amount(p, bets, active)
        proposed_total_bet == bets[p] + amount
        max_player_can_bet == bets[p] + chips[p]
    IN Min2(proposed_total_bet, Min2(max_callable, max_player_can_bet))

\* Faulty variant: a call pays the full outstanding amount.
actual_call_amount_unclamped(p, bets, cb) == cb - bets[p]

actual_call_amount(p, bets, cb) == Min2(cb - bets[p], chips[p])

\* Faulty variant: a raise that only equals the highest bet reopens the action.
was_raise_on_equal(new_current_bet, cb) == new_current_bet >= cb

was_raise(new_current_bet, cb) == new_current_bet > cb

\* process_betting_action: the values it returns and the state it leaves.
process_betting_action(p, action, amount) ==
    CASE action = "fold" ->
            [pot |-> pot, current_bet |-> current_bet, was_raise |-> FALSE,
             actual_amount |-> 0, player_bets |-> player_bets, chips |-> chips,
             active_players |-> Remove(active_players, p)]
      [] action = "check" ->
            [pot |-> pot, current_bet |-> current_bet, was_raise |-> FALSE,
             actual_amount |-> 0, player_bets |-> player_bets, chips |-> chips,
             active_players |-> active_players]
      [] action = "call" ->
            LET a == actual_call_amount(p, player_bets, current_bet) IN
            [pot |-> pot + a, current_bet |-> current_bet, was_raise |-> FALSE,
             actual_amount |-> a,
             player_bets |-> [player_bets EXCEPT ![p] = @ + a],
             chips |-> [chips EXCEPT ![p] = @ - a],
             active_players |-> active_players]
      [] action = "raise" ->
            LET e == effective_total_bet(p, amount, player_bets, active_players)
                a == e - player_bets[p] IN
            [pot |-> pot + a, current_bet |-> e,
             was_raise |-> was_raise(e, current_bet),
             actual_amount |-> a,
             player_bets |-> [player_bets EXCEPT ![p] = e],
             chips |-> [chips EXCEPT ![p] = @ - a],
             active_players |-> active_players]

\* Faulty variant: a raise re-queues players who are still in the queue.
requeued_though_queued(p, queue, active, bets, cb) ==
    SelectSeq(active, LAMBDA o : o # p /\ bets[o] < cb)

\* Faulty variant: a raise re-queues every other player, matched or not.
requeued_all_others(p, queue, active, bets, cb) ==
    SelectSeq(active, LAMBDA o : o # p /\ o \notin Range(queue))

\* Faulty variant: a raise re-queues only the players who have not acted yet.
requeued_not_yet_acted(p, queue, active, bets, cb) ==
    SelectSeq(active, LAMBDA o : /\ o # p
                                 /\ o \notin Range(queue)
                                 /\ bets[o] < cb
                                 /\ players_actions[o].player = NoPlayer)

\* betting_round, lines 318-324: the players a raise puts back in the queue.
requeued(p, queue, active, bets, cb) ==
    SelectSeq(active, LAMBDA o : o # p /\ o \notin Range(queue) /\ bets[o] < cb)

\* Faulty variant: the blinds are not recorded as contributions.
blind_bets_unrecorded == NoBets

\* play_round, lines 359-361: the blinds as contributions made beforehand.
blind_bets ==
    [p \in PlayerIds |->
        IF p = big_blind_player THEN BIG_BLIND
        ELSE IF p = small_blind_player THEN SMALL_BLIND ELSE 0]

\* ------------------------------------------------------------------ deck
\* create_deck: the 52 cards, ranks 2..14 outermost, the suits in the order
\* of the Suit enum.
Suits == <<"spades", "hearts", "diamonds", "clubs">>
create_deck ==
    [i \in 1..(13 * Len(Suits)) |->
        <<2 + ((i - 1) \div Len(Suits)), Suits[1 + ((i - 1) % Len(Suits))]>>]

\* random.shuffle, drawn from the cuts of the deck by 0..MaxCut cards.
MaxCut == 1
shuffles(d) == {Rotate(d, k) : k \in 0..MaxCut}

\* Faulty variant: one community card after every phase.
cards_after_one_each(ph) == 1

\* play_round: the community cards dealt, behind one burn card, when phase ph
\* is over.
cards_after(ph) == IF ph = "pre_flop" THEN 3 ELSE 1

\* deal_cards / deck.pop(): cards leave the deck from its tail, last first.
deal_cards(d, num_cards) == [i \in 1..num_cards |-> d[Len(d) + 1 - i]]
after_deal(d, num_cards) == SubSeq(d, 1, Len(d) - num_cards)

\* Faulty variant: the second pass deals the cards of the first pass again.
hole_cards_first_pass_twice(d, n, i) ==
    <<d[Len(d) + 1 - i], d[Len(d) + 1 - i]>>

\* setup_round: two passes over the n players, one card each; the i-th
\* player's hand.
hole_cards(d, n, i) == <<d[Len(d) + 1 - i], d[Len(d) + 1 - n - i]>>

\* The parts of the program a specification does not run stay as they are
\* before their first call.
HarnessIdle ==
    /\ semaphore = 0
    /\ n_games = 0
    /\ tasks = <<>>
    /\ game_results = <<>>
EngineIdle ==
    /\ players = <<>>
    /\ chips = NoBets
    /\ round_count = 0
    /\ max_rounds = 0
    /\ eliminated_players = <<>>
    /\ round_start_chips = NoBets
    /\ small_blind_player = NoPlayer
    /\ big_blind_player = NoPlayer
    /\ pot = 0
    /\ current_bet = 0
    /\ player_bets = NoBets
    /\ active_players = <<>>
    /\ players_to_act = <<>>
    /\ players_actions = NoActions
    /\ action_response = NoResponse
    /\ player = NoPlayer
    /\ phase = "none"
    /\ hand = NoHands
    /\ community_cards = <<>>
    /\ winners = <<>>
    /\ winner = NoPlayer
    /\ final_rankings = <<>>
    /\ pc = "not_playing"
    /\ deck = <<>>
    /\ burned = <<>>
    /\ starting_pot = 0
IsolationIdle == heap = <<>> /\ games = <<>>
EvaluatorIdle == given_cards = <<>> /\ returned_score = <<>>

\* ------------------------------------------------------------------ Init
\* One round of play_round from any seating and stacks within the bounds
\* (max_rounds = 1: collect_game_result plays the round and stops).
Init ==
    /\ \E n \in 2..Len(Seats) :
         /\ players = SubSeq(Seats, 1, n)
         /\ \E st \in [Range(SubSeq(Seats, 1, n)) -> Stacks] :
              /\ SumOver(st, DOMAIN st) <= MaxTableUnits * ChipUnit
              /\ chips = [p \in PlayerIds |->
                            IF p \in DOMAIN st THEN st[p] ELSE 0]
    /\ round_count = 0
    /\ max_rounds = 1
    /\ eliminated_players = <<>>
    /\ round_start_chips = chips
    /\ small_blind_player = NoPlayer
    /\ big_blind_player = NoPlayer
    /\ pot = 0
    /\ current_bet = 0
    /\ player_bets = NoBets
    /\ active_players = <<>>
    /\ players_to_act = <<>>
    /\ players_actions = NoActions
    /\ action_response = NoResponse
    /\ player = NoPlayer
    /\ phase = "none"
    /\ hand = NoHands
    /\ community_cards = <<>>
    /\ winners = <<>>
    /\ winner = NoPlayer
    /\ final_rankings = <<>>
    /\ pc = "play_round"
    /\ deck = <<>>
    /\ burned = <<>>
    /\ starting_pot = 0
    /\ HarnessIdle /\ IsolationIdle /\ EvaluatorIdle

\* --------------------------------------------------------------- actions
\* Faulty variant: the small blind player pays both blinds.
blinds_debited_small_pays_both(sb, bb) ==
    [chips EXCEPT ![sb] = @ - SMALL_BLIND - BIG_BLIND]

\* apply_blinds, lines 139-140: the two debits.
blinds_debited(sb, bb) ==
    [chips EXCEPT ![sb] = @ - SMALL_BLIND, ![bb] = @ - BIG_BLIND]

\* play_round up to the pre-flop call of betting_round: setup_round (the deal
\* touches no chip; with the cards face up the first round plays the shuffle
\* drawn at the start, a later round a shuffle of its own), apply_blinds, the
\* pre-flop seating.

apply_blinds ==
    /\ pc = "play_round"
    /\ \E rotate_index \in 0..(Len(players) - 1) :
         LET rotated == Rotate(players, rotate_index)
             sb == rotated[1]
             bb == rotated[2]
         IN /\ players' = rotated
            /\ small_blind_player' = sb
            /\ big_blind_player' = bb
            /\ round_start_chips' = chips
            /\ chips' = blinds_debited(sb, bb)
            /\ active_players' = Rotate(rotated, 2)
    /\ pot' = SMALL_BLIND + BIG_BLIND
    /\ current_bet' = BIG_BLIND
    /\ phase' = "pre_flop"
    /\ pc' = "betting_round"
    /\ IF deck = <<>>
       THEN UNCHANGED <<hand, deck>>
       ELSE \E d \in (IF round_count = 0 THEN {deck}
                      ELSE shuffles(create_deck)) :
               /\ hand' = [p \in PlayerIds |->
                             IF p \in Range(players)
                             THEN hole_cards(d, Len(players),
                                             IndexOf(players, p))
                             ELSE hand[p]]
               /\ deck' = after_deal(d, 2 * Len(players))
    /\ community_cards' = <<>>
    /\ burned' = <<>>
    /\ starting_pot' = 0
    /\ UNCHANGED <<round_count, max_rounds, eliminated_players, player_bets,
                   players_to_act, players_actions, action_response, player>>
    /\ UNCHANGED <<winners, winner, final_rankings>>
    /\ UNCHANGED <<harness_vars, isolation_vars, evaluator_vars>>

\* betting_round, lines 278-294: the all-in short-circuit, else the queue,
\* the contributions and the empty record.
betting_round_enter ==
    /\ pc = "betting_round"
    /\ IF all_players_all_in(active_players)
       THEN /\ pc' = "returned"
            /\ UNCHANGED <<players_to_act, player_bets>>
       ELSE /\ players_to_act' = active_players
            /\ player_bets' = IF phase = "pre_flop" THEN blind_bets ELSE NoBets
            /\ pc' = "loop"
    /\ players_actions' = NoActions
    /\ UNCHANGED <<players, chips, round_count, max_rounds, eliminated_players,
                   round_start_chips, small_blind_player, big_blind_player,
                   pot, current_bet, active_players, action_response, player,
                   phase>>
    /\ UNCHANGED <<hand, community_cards, winners, winner, final_rankings>>
    /\ UNCHANGED <<deck, burned>>
    /\ starting_pot' = pot
    /\ UNCHANGED <<harness_vars, isolation_vars, evaluator_vars>>

\* betting_round, lines 296-305: take the next player of the queue and call
\* its decision provider (the await is the suspension point).
ask_player ==
    /\ pc = "loop"
    /\ players_to_act # <<>>
    /\ players_to_act' = Tail(players_to_act)
    /\ IF Head(players_to_act) \notin Range(active_players)
       THEN /\ player' = NoPlayer
            /\ pc' = IF Tail(players_to_act) = <<>> THEN "returned" ELSE "loop"
       ELSE /\ player' = Head(players_to_act)
            /\ pc' = "awaiting"
    /\ action_response' = NoResponse
    /\ UNCHANGED <<players, chips, round_count, max_rounds, eliminated_players,
                   round_start_chips, small_blind_player, big_blind_player,
                   pot, current_bet, player_bets, active_players,
                   players_actions, phase>>
    /\ UNCHANGED <<hand, community_cards, winners, winner, final_rankings>>
    /\ UNCHANGED <<deck, burned, starting_pot>>
    /\ UNCHANGED <<harness_vars, isolation_vars, evaluator_vars>>

\* Faulty variant: the loop does not stop when a single player remains.
loop_ends_without_last_player_test(active, chips_now, queue) ==
    \/ \A p \in Range(active) : chips_now[p] = 0
    \/ queue = <<>>

\* betting_round, lines 296 and 326-332: the loop is left when one player
\* remains, when all active players are all-in, or when the queue is empty.
loop_ends(active, chips_now, queue) ==
    \/ Len(active) = 1
    \/ \A p \in Range(active) : chips_now[p] = 0
    \/ queue = <<>>

\* betting_round, line 316: players_actions[player] = action_response.
recorded(p, actual) ==
    [players_actions EXCEPT
       ![p] = [player |-> p, actual_amount_contributed |-> actual]]

\* betting_round, lines 305-332: the provider's response is processed, the
\* record updated, a raise reopens the action, the loop ends or goes on.
process_response ==
    /\ pc = "awaiting"
    /\ \E resp \in Responses :
         LET action == resp.action
             amount == resp.amount
             r == process_betting_action(player, action, amount)
             q == IF r.was_raise
                  THEN players_to_act \o
                       requeued(player, players_to_act, r.active_players,
                                r.player_bets, r.current_bet)
                  ELSE players_to_act
         IN /\ pot' = r.pot
            /\ current_bet' = r.current_bet
            /\ player_bets' = r.player_bets
            /\ chips' = r.chips
            /\ active_players' = r.active_players
            /\ action_response' =
                 [player |-> player, action |-> action, amount |-> amount,
                  actual_amount_contributed |-> r.actual_amount]
            /\ players_actions' = recorded(player, r.actual_amount)
            /\ players_to_act' = q
            /\ pc' = IF loop_ends(r.active_players, r.chips, q)
                     THEN "returned" ELSE "loop"
    /\ player' = NoPlayer
    /\ UNCHANGED <<players, round_count, max_rounds, eliminated_players,
                   round_start_chips, small_blind_player, big_blind_player,
                   phase>>
    /\ UNCHANGED <<hand, community_cards, winners, winner, final_rankings>>
    /\ UNCHANGED <<deck, burned, starting_pot>>
    /\ UNCHANGED <<harness_vars, isolation_vars, evaluator_vars>>

\* play_round, lines 375-423: the next phase's cards are dealt and its
\* betting_round called, unless at most one player is active or all are
\* all-in.
\* Faulty variant: the small blind is seated first even after folding.
small_blind_first_reseats(active) ==
    IF Len(active) > 1
    THEN <<small_blind_player>> \o Remove(active, small_blind_player)
    ELSE active

small_blind_first(active) ==
    IF Len(active) > 1 /\ small_blind_player \in Range(active)
    THEN Rotate(active, IndexOf(active, small_blind_player) - 1)
    ELSE active

\* Faulty variant: the flop is dealt again after the turn.
following_phase_back_to_flop(ph) ==
    CASE ph = "pre_flop" -> "flop"
      [] ph = "flop" -> "turn"
      [] ph = "turn" -> "flop"

\* play_round: the phase whose cards are dealt after phase ph.
following_phase(ph) ==
    CASE ph = "pre_flop" -> "flop"
      [] ph = "flop" -> "turn"
      [] ph = "turn" -> "river"

next_phase ==
    /\ pc = "returned"
    /\ phase \in {"pre_flop", "flop", "turn"}
    /\ LET nxt == following_phase(phase)
           seated == IF phase = "pre_flop"
                     THEN small_blind_first(active_players)
                     ELSE active_players
       IN /\ phase' = nxt
          /\ IF Len(seated) > 1 /\ ~all_players_all_in(seated)
             THEN /\ active_players' = seated
                  /\ pc' = "betting_round"
             ELSE /\ pc' = "returned"
                  /\ UNCHANGED active_players
    /\ current_bet' = 0
    /\ player_bets' = NoBets
    /\ players_to_act' = <<>>
    /\ action_response' = NoResponse
    /\ UNCHANGED <<players, chips, round_count, max_rounds, eliminated_players,
                   round_start_chips, small_blind_player, big_blind_player,
                   pot, players_actions, player>>
    /\ IF deck # <<>> /\ Len(active_players) > 1
       THEN LET popped == deal_cards(deck, 1 + cards_after(phase))
            IN /\ burned' = Append(burned, popped[1])
               /\ community_cards' =
                     community_cards \o SubSeq(popped, 2, Len(popped))
               /\ deck' = after_deal(deck, Len(popped))
       ELSE UNCHANGED <<deck, burned, community_cards>>
    /\ starting_pot' = 0
    /\ UNCHANGED <<hand, winners, winner, final_rankings>>
    /\ UNCHANGED <<harness_vars, isolation_vars, evaluator_vars>>

\* ------------------------------------------------------------- the cards
\* A card is <<rank, suit>>, rank 2..14.  The cards that can lie on top of
\* the shuffled deck when the showdown's deal is drawn.
TopOfDeck ==
    <<<<13, "spades">>, <<12, "spades">>, <<11, "spades">>, <<10, "spades">>,
      <<10, "hearts">>, <<3, "clubs">>,
      <<14, "hearts">>, <<14, "diamonds">>, <<9, "hearts">>, <<9, "diamonds">>,
      <<9, "spades">>, <<2, "clubs">>, <<3, "diamonds">>>>
BoardDeck == {TopOfDeck[i] : i \in 1..BoardCards}
HoleDeck == {TopOfDeck[i] : i \in (BoardCards + 1)..DeckSize}

\* Faulty variant: sorted without reverse=True.
RECURSIVE sorted_forward(_)
sorted_forward(S) ==
    IF S = {} THEN <<>>
    ELSE LET m == MinOf(S) IN <<m>> \o sorted_forward(S \ {m})

\* sorted(S, reverse=True) of a set of numbers.
RECURSIVE sorted_reverse(_)
sorted_reverse(S) ==
    IF S = {} THEN <<>>
    ELSE LET m == MaxOf(S) IN <<m>> \o sorted_reverse(S \ {m})

RECURSIVE SetToSeq(_)
SetToSeq(S) ==
    IF S = {} THEN <<>>
    ELSE LET x == CHOOSE y \in S : TRUE IN <<x>> \o SetToSeq(S \ {x})

\* Faulty variant: the wheel keeps its ace high, [14, 5, 4, 3, 2].
evaluate_hand_ace_high_wheel(h) ==
    LET keys == {h[i][1] : i \in 1..Len(h)}
        rank_counts ==
            [r \in keys |-> Cardinality({i \in 1..Len(h) : h[i][1] = r})]
        by_count(c) == sorted_reverse({r \in keys : rank_counts[r] = c})
        counts == <<Cardinality({r \in keys : rank_counts[r] = 4}),
                    Cardinality({r \in keys : rank_counts[r] = 3}),
                    Cardinality({r \in keys : rank_counts[r] = 2})>>
        unique_ranks == sorted_reverse(keys)
        is_flush == Cardinality({h[i][2] : i \in 1..Len(h)}) = 1
        spans_five ==
            Len(unique_ranks) = 5 /\ unique_ranks[1] - unique_ranks[5] = 4
        wheel == ~spans_five /\ unique_ranks = <<14, 5, 4, 3, 2>>
        is_straight == spans_five \/ wheel
        straight_ranks == unique_ranks
    IN IF is_straight /\ is_flush THEN <<8, straight_ranks>>
       ELSE IF counts = <<1, 0, 0>> THEN <<7, by_count(4) \o by_count(1)>>
       ELSE IF counts = <<0, 1, 1>> THEN <<6, by_count(3) \o by_count(2)>>
       ELSE IF is_flush THEN <<5, unique_ranks>>
       ELSE IF is_straight THEN <<4, straight_ranks>>
       ELSE IF counts = <<0, 1, 0>> THEN <<3, by_count(3) \o by_count(1)>>
       ELSE IF counts = <<0, 0, 2>> THEN <<2, by_count(2) \o by_count(1)>>
       ELSE IF counts = <<0, 0, 1>> THEN <<1, by_count(2) \o by_count(1)>>
       ELSE <<0, unique_ranks>>

\* evaluate_hand: <<hand_type, tiebreakers>> of a five-card hand.  counts is
\* kept as <<number of ranks held four times, three times, twice>>.
evaluate_hand(h) ==
    LET keys == {h[i][1] : i \in 1..Len(h)}
        rank_counts ==
            [r \in keys |-> Cardinality({i \in 1..Len(h) : h[i][1] = r})]
        by_count(c) == sorted_reverse({r \in keys : rank_counts[r] = c})
        counts == <<Cardinality({r \in keys : rank_counts[r] = 4}),
                    Cardinality({r \in keys : rank_counts[r] = 3}),
                    Cardinality({r \in keys : rank_counts[r] = 2})>>
        unique_ranks == sorted_reverse(keys)
        is_flush == Cardinality({h[i][2] : i \in 1..Len(h)}) = 1
        spans_five ==
            Len(unique_ranks) = 5 /\ unique_ranks[1] - unique_ranks[5] = 4
        wheel == ~spans_five /\ unique_ranks = <<14, 5, 4, 3, 2>>
        is_straight == spans_five \/ wheel
        straight_ranks == IF wheel THEN <<5, 4, 3, 2, 1>> ELSE unique_ranks
    IN IF is_straight /\ is_flush THEN <<8, straight_ranks>>
       ELSE IF counts = <<1, 0, 0>> THEN <<7, by_count(4) \o by_count(1)>>
       ELSE IF counts = <<0, 1, 1>> THEN <<6, by_count(3) \o by_count(2)>>
       ELSE IF is_flush THEN <<5, unique_ranks>>
       ELSE IF is_straight THEN <<4, straight_ranks>>
       ELSE IF counts = <<0, 1, 0>> THEN <<3, by_count(3) \o by_count(1)>>
       ELSE IF counts = <<0, 0, 2>> THEN <<2, by_count(2) \o by_count(1)>>
       ELSE IF counts = <<0, 0, 1>> THEN <<1, by_count(2) \o by_count(1)>>
       ELSE <<0, unique_ranks>>

\* The order of Python's lists and of its (hand_type, tiebreakers) tuples.
list_greater(x, y) ==
    \/ \E i \in 1..Min2(Len(x), Len(y)) :
          x[i] > y[i] /\ \A j \in 1..(i - 1) : x[j] = y[j]
    \/ Len(x) > Len(y) /\ \A j \in 1..Len(y) : x[j] = y[j]

\* Faulty variant: the tiebreakers are compared whatever the hand types.
score_greater_by_tiebreakers(a, b) == list_greater(a[2], b[2])

score_greater(a, b) ==
    a[1] > b[1] \/ (a[1] = b[1] /\ list_greater(a[2], b[2]))

\* itertools.combinations(cards, 5), each in the order of cards.
combinations(cards) ==
    {SelectSeq(cards, LAMBDA c : c \notin out) :
        out \in {o \in SUBSET Range(cards) : Cardinality(o) = Len(cards) - 5}}

\* Faulty variant: the first combination's score is kept.
best_hand_first_combination(cards) == evaluate_hand(SubSeq(cards, 1, 5))

\* best_hand_from_seven: the loop keeps every score greater than the best so
\* far, starting from (-1, []): it ends with the greatest score.
best_hand_from_seven(cards) ==
    LET scores == {evaluate_hand(combo) : combo \in combinations(cards)}
    IN IF scores = {} THEN <<-1, <<>>>>
       ELSE CHOOSE best_score \in scores :
               \A score \in scores : ~score_greater(score, best_score)

\* determine_winners: the dict player -> score, every player's seven cards
\* scored once.
determine_winners(active, community) ==
    LET scored == {<<p, best_hand_from_seven(hand[p] \o community)>> :
                     p \in Range(active)}
    IN [p \in Range(active) |-> (CHOOSE e \in scored : e[1] = p)[2]]

\* Faulty variant: only the first player holding the best score wins.
get_winners_first_best_only(order, player_hands) ==
    LET best_score ==
            CHOOSE s \in {player_hands[p] : p \in Range(order)} :
               \A q \in Range(order) : ~score_greater(player_hands[q], s)
        first == CHOOSE i \in 1..Len(order) :
                    /\ player_hands[order[i]] = best_score
                    /\ \A j \in 1..(i - 1) : player_hands[order[j]] # best_score
    IN <<order[first]>>

\* get_winners_from_hands: order is the dict's insertion order, that of the
\* active players.
get_winners_from_hands(order, player_hands) ==
    LET best_score ==
            CHOOSE s \in {player_hands[p] : p \in Range(order)} :
               \A q \in Range(order) : ~score_greater(player_hands[q], s)
    IN SelectSeq(order, LAMBDA p : player_hands[p] = best_score)

\* ------------------------------------------------------------ settlement
\* Faulty variant: a split pot's remainder is given to nobody.
distribute_winnings_drops_remainder(winners_, amount) ==
    [p \in PlayerIds |->
       IF p \in Range(winners_)
       THEN chips[p] + (amount \div Len(winners_))
       ELSE chips[p]]

\* Faulty variant: the pot is shared among every player still active,
\* winner or not.
distribute_winnings_among_active(winners_, amount) ==
    [p \in PlayerIds |->
       IF p \in Range(active_players)
       THEN chips[p] + (amount \div Len(active_players))
            + (IF IndexOf(active_players, p) <= amount % Len(active_players)
               THEN 1 ELSE 0)
       ELSE chips[p]]

\* Faulty variant: the remainder goes to the last winners of the list.
distribute_winnings_remainder_to_last(winners_, amount) ==
    [p \in PlayerIds |->
       IF p \in Range(winners_)
       THEN chips[p] + (amount \div Len(winners_))
            + (IF IndexOf(winners_, p) > Len(winners_) - (amount % Len(winners_))
               THEN 1 ELSE 0)
       ELSE chips[p]]

\* distribute_winnings: the chips after the pot is shared among winners.
distribute_winnings(winners_, amount) ==
    IF Len(winners_) = 1
    THEN [chips EXCEPT ![winners_[1]] = @ + amount]
    ELSE LET split_amount == amount \div Len(winners_)
             remainder == amount % Len(winners_)
         IN [p \in PlayerIds |->
               IF p \in Range(winners_)
               THEN chips[p] + split_amount
                    + (IF IndexOf(winners_, p) <= remainder THEN 1 ELSE 0)
               ELSE chips[p]]

\* Faulty variant: the pot goes to the first seat of the table.
sole_winner_paid_to_first_seat(active, amount) ==
    [chips EXCEPT ![players[1]] = @ + amount]

\* play_round, lines 429-431: the last active player takes the pot.
sole_winner_paid(active, amount) ==
    [chips EXCEPT ![active[1]] = @ + amount]

\* play_round, lines 433-435: the showdown's winners.  With the cards face
\* down any non-empty sub-list of the active players can win.
showdown(active) ==
    IF community_cards = <<>>
    THEN SubLists(active)
    ELSE {get_winners_from_hands(active,
                                 determine_winners(active, community_cards))}

\* play_round, lines 425-438: settlement, then the round's betting state is
\* gone.
settle ==
    /\ pc = "returned"
    /\ phase = "river"
    /\ IF Len(active_players) = 1
       THEN /\ chips' = sole_winner_paid(active_players, pot)
            /\ winners' = <<>>
       ELSE \E w \in showdown(active_players) :
               /\ chips' = distribute_winnings(w, pot)
               /\ winners' = w
    /\ pot' = 0
    /\ current_bet' = 0
    /\ player_bets' = NoBets
    /\ active_players' = <<>>
    /\ players_to_act' = <<>>
    /\ players_actions' = NoActions
    /\ small_blind_player' = NoPlayer
    /\ big_blind_player' = NoPlayer
    /\ phase' = "none"
    /\ action_response' = NoResponse
    /\ pc' = "round_done"
    /\ UNCHANGED <<players, round_count, max_rounds, eliminated_players,
                   round_start_chips, player, hand, community_cards, winner,
                   final_rankings>>
    /\ UNCHANGED <<deck, burned>>
    /\ starting_pot' = 0
    /\ UNCHANGED <<harness_vars, isolation_vars, evaluator_vars>>

\* ------------------------------------------------------------ tournament
\* eliminate_players and the loop test of collect_game_result.
remaining_players(ps) == SelectSeq(ps, LAMBDA p : chips[p] > 0)
eliminated_this_round(ps) == SelectSeq(ps, LAMBDA p : chips[p] <= 0)

\* Faulty variant: the loop test forgets the round cap.
loop_continues_without_cap(count, cap, live) == Len(live) >= 2

\* collect_game_result, line 210: the while test.
loop_continues(count, cap, live) == count < cap /\ Len(live) >= 2

eliminate_players ==
    /\ pc = "round_done"
    /\ players' = remaining_players(players)
    /\ eliminated_players' = eliminated_players \o eliminated_this_round(players)
    /\ round_count' = round_count + 1
    /\ pc' = IF loop_continues(round_count + 1, max_rounds,
                               remaining_players(players))
             THEN "play_round" ELSE "game_over"
    /\ winners' = <<>>
    /\ UNCHANGED <<chips, max_rounds, round_start_chips, small_blind_player,
                   big_blind_player, pot, current_bet, player_bets,
                   active_players, players_to_act, players_actions,
                   action_response, player, phase, hand, community_cards,
                   winner, final_rankings>>
    /\ UNCHANGED <<deck, burned, starting_pot>>
    /\ UNCHANGED <<harness_vars, isolation_vars, evaluator_vars>>

\* Faulty variant: the sort forgets reverse=True.
RECURSIVE sorted_by_chips_ascending(_)
sorted_by_chips_ascending(ps) ==
    IF ps = <<>> THEN <<>>
    ELSE LET i == CHOOSE k \in 1..Len(ps) :
                     /\ \A j \in 1..Len(ps) : chips[ps[j]] >= chips[ps[k]]
                     /\ \A j \in 1..(k - 1) : chips[ps[j]] > chips[ps[k]]
         IN <<ps[i]>> \o sorted_by_chips_ascending(
                SubSeq(ps, 1, i - 1) \o SubSeq(ps, i + 1, Len(ps)))

\* sorted(players, key=lambda p: p.chips, reverse=True): a stable sort, equal
\* chip counts keep the order of the list.
RECURSIVE sorted_by_chips(_)
sorted_by_chips(ps) ==
    IF ps = <<>> THEN <<>>
    ELSE LET i == CHOOSE k \in 1..Len(ps) :
                     /\ \A j \in 1..Len(ps) : chips[ps[j]] <= chips[ps[k]]
                     /\ \A j \in 1..(k - 1) : chips[ps[j]] < chips[ps[k]]
         IN <<ps[i]>> \o sorted_by_chips(
                SubSeq(ps, 1, i - 1) \o SubSeq(ps, i + 1, Len(ps)))

\* collect_game_result, lines 216-224: the GameResult.  sorted(...)[0] of an
\* empty list raises IndexError.
collect_game_result_return ==
    /\ pc = "game_over"
    /\ IF players = <<>>
       THEN /\ pc' = "IndexError"
            /\ UNCHANGED <<winner, final_rankings>>
       ELSE /\ winner' = sorted_by_chips(players)[1]
            /\ final_rankings' = sorted_by_chips(players)
            /\ pc' = "done"
    /\ UNCHANGED <<players, chips, round_count, max_rounds, eliminated_players,
                   round_start_chips, small_blind_player, big_blind_player,
                   pot, current_bet, player_bets, active_players,
                   players_to_act, players_actions, action_response, player,
                   phase, hand, community_cards, winners>>
    /\ UNCHANGED <<deck, burned, starting_pot>>
    /\ UNCHANGED <<harness_vars, isolation_vars, evaluator_vars>>

Next ==
    \/ apply_blinds
    \/ betting_round_enter
    \/ ask_player
    \/ process_response
    \/ next_phase
    \/ settle
    \/ eliminate_players
    \/ collect_game_result_return

Spec == Init /\ [][Next]_vars

\* The same round when the program keeps running: betting_round's loop has no
\* suspension point but the await of the decision provider, every provider
\* answers, and play_round and collect_game_result run on without waiting, so
\* a step that stays possible is taken.
SpecTermination == Spec /\ WF_vars(Next)

\* A tournament of collect_game_result: setup_players seats the players with
\* equal stacks, max_rounds is the caller's.  The tournament's size, rounds
\* times opponents, is at most MaxRounds.
InitTournament ==
    /\ \E n \in 2..Len(Seats), st \in Stacks :
         /\ n * st <= MaxTableUnits * ChipUnit
         /\ players = SubSeq(Seats, 1, n)
         /\ chips = [p \in PlayerIds |->
                       IF p \in Range(SubSeq(Seats, 1, n)) THEN st ELSE 0]
         /\ max_rounds \in {r \in 0..MaxRounds : (n - 1) * r <= MaxRounds}
    /\ round_count = 0
    /\ eliminated_players = <<>>
    /\ round_start_chips = chips
    /\ small_blind_player = NoPlayer
    /\ big_blind_player = NoPlayer
    /\ pot = 0
    /\ current_bet = 0
    /\ player_bets = NoBets
    /\ active_players = <<>>
    /\ players_to_act = <<>>
    /\ players_actions = NoActions
    /\ action_response = NoResponse
    /\ player = NoPlayer
    /\ phase = "none"
    /\ hand = NoHands
    /\ community_cards = <<>>
    /\ winners = <<>>
    /\ winner = NoPlayer
    /\ final_rankings = <<>>
    /\ pc = IF loop_continues(0, max_rounds, players)
            THEN "play_round" ELSE "game_over"
    /\ deck = <<>>
    /\ burned = <<>>
    /\ starting_pot = 0
    /\ HarnessIdle /\ IsolationIdle /\ EvaluatorIdle

SpecTournament == InitTournament /\ [][Next]_vars

\* The showdown of a round whose players all called the big blind and are
\* all-in: the river is dealt, two or three players hold their hole cards.
InitShowdown ==
    /\ \E n \in 2..Len(Seats) :
         /\ players = SubSeq(Seats, 1, n)
         /\ \E k \in 0..(n - 1) :
              active_players = Rotate(SubSeq(Seats, 1, n), k)
         /\ round_start_chips =
              [p \in PlayerIds |->
                 IF p \in Range(SubSeq(Seats, 1, n)) THEN BIG_BLIND ELSE 0]
         /\ pot = n * BIG_BLIND
         /\ \E board \in SUBSET BoardDeck :
              /\ Cardinality(board) = 5
              /\ community_cards = SetToSeq(board)
         /\ \E deal \in [Range(SubSeq(Seats, 1, n)) -> SUBSET HoleDeck] :
              /\ \A p \in DOMAIN deal : Cardinality(deal[p]) = 2
              /\ \A p, q \in DOMAIN deal : p # q => deal[p] \cap deal[q] = {}
              /\ hand = [p \in PlayerIds |->
                           IF p \in DOMAIN deal THEN SetToSeq(deal[p]) ELSE <<>>]
    /\ chips = [p \in PlayerIds |-> 0]
    /\ round_count = 0
    /\ max_rounds = 1
    /\ eliminated_players = <<>>
    /\ small_blind_player = NoPlayer
    /\ big_blind_player = NoPlayer
    /\ current_bet = 0
    /\ player_bets = NoBets
    /\ players_to_act = <<>>
    /\ players_actions = NoActions
    /\ action_response = NoResponse
    /\ player = NoPlayer
    /\ phase = "river"
    /\ winners = <<>>
    /\ winner = NoPlayer
    /\ final_rankings = <<>>
    /\ pc = "returned"
    /\ deck = <<>>
    /\ burned = <<>>
    /\ starting_pot = 0
    /\ HarnessIdle /\ IsolationIdle /\ EvaluatorIdle

NextShowdown ==
    \/ settle
    \/ eliminate_players
    \/ collect_game_result_return

SpecShowdown == InitShowdown /\ [][NextShowdown]_vars

\* ------------------------------------------------------------- run_games
\* run_games of src/src/main.py: n_games run_game() tasks gathered on one
\* event loop behind asyncio.Semaphore(SEMAPHORE_LIMIT).  The tasks are alike,
\* so the state counts them by position: created (before the semaphore),
\* holding (inside "async with semaphore", playing the tournament), returned
\* (GameResult delivered) and raised (the decision provider failed, llm.py
\* lines 155-156, and the exception left run_game).
SEMAPHORE_LIMIT == 100

\* n_games is 1..GamesOver, or the semaphore's limit plus 0..GamesOver.
GamesOver == 1
GameCounts ==
    (1..GamesOver) \cup {SEMAPHORE_LIMIT + k : k \in 0..GamesOver}

Pending == [status |-> "pending", results |-> 0]

\* Faulty variant: a semaphore that never blocks.
locked_never(value) == FALSE

\* asyncio.Semaphore.locked(): no permit is left.
locked(value) == value = 0

InitHarness ==
    /\ n_games \in GameCounts
    /\ semaphore = SEMAPHORE_LIMIT
    /\ tasks = [created |-> n_games, holding |-> 0, returned |-> 0,
                raised |-> 0]
    /\ game_results = Pending
    /\ EngineIdle
    /\ IsolationIdle /\ EvaluatorIdle

\* Faulty variant: leaving the with block keeps the permit.
release_keeps_permit(value) == value

\* asyncio.Semaphore.release(), called on leaving "async with semaphore".
release(value) == value + 1

\* run_game, line 238: "async with semaphore" takes a permit when one is left.
acquire ==
    /\ tasks.created > 0
    /\ ~locked(semaphore)
    /\ semaphore' = semaphore - 1
    /\ tasks' = [tasks EXCEPT !.created = @ - 1, !.holding = @ + 1]
    /\ UNCHANGED <<n_games, game_results>>
    /\ UNCHANGED <<engine_vars, isolation_vars, evaluator_vars>>

\* run_game, lines 239-241: collect_game_result returned, the progress bar is
\* advanced, the permit is given back on leaving the with block.
run_game_returns ==
    /\ tasks.holding > 0
    /\ semaphore' = release(semaphore)
    /\ tasks' = [tasks EXCEPT !.holding = @ - 1, !.returned = @ + 1]
    /\ UNCHANGED <<n_games, game_results>>
    /\ UNCHANGED <<engine_vars, isolation_vars, evaluator_vars>>

\* run_game, line 239: a decision provider raised inside collect_game_result;
\* nothing catches it, the with block gives the permit back and the task ends
\* with the exception.
run_game_raises ==
    /\ tasks.holding > 0
    /\ semaphore' = release(semaphore)
    /\ tasks' = [tasks EXCEPT !.holding = @ - 1, !.raised = @ + 1]
    /\ UNCHANGED <<n_games, game_results>>
    /\ UNCHANGED <<engine_vars, isolation_vars, evaluator_vars>>

\* run_games, lines 244-247: asyncio.gather without return_exceptions.  When
\* every task has returned the caller gets the list of GameResults; the first
\* exception of a task is raised to the caller at once, while the other tasks
\* keep running.
gather_result(t) ==
    IF t.raised > 0 THEN [status |-> "raised", results |-> 0]
    ELSE [status |-> "returned", results |-> t.returned]

gather ==
    /\ game_results = Pending
    /\ tasks.raised > 0 \/ tasks.returned = n_games
    /\ game_results' = gather_result(tasks)
    /\ UNCHANGED <<semaphore, n_games, tasks>>
    /\ UNCHANGED <<engine_vars, isolation_vars, evaluator_vars>>

NextHarness ==
    \/ acquire
    \/ run_game_returns
    \/ run_game_raises
    \/ gather

SpecHarness == InitHarness /\ [][NextHarness]_vars

\* The event loop runs every task that is ready: a task waiting for a permit
\* goes on once one is free, a tournament holding a permit comes to its end,
\* and gather hands over once its tasks have ended.
SpecHarnessProgress == SpecHarness /\ WF_vars(NextHarness)

\* ------------------------------------------- tournaments side by side
\* The coroutines collect_game_result that run_games gathers on one event
\* loop, each between two suspension points at a time.  The objects they
\* build (Player objects, the players list, the deck list) live on one heap
\* and are reached through the references each coroutine holds in its
\* locals; pot and community_cards are locals.  The betting of the engine is
\* reduced to its effect on these objects: the asked player pays an amount
\* into the pot, cards leave the deck between betting rounds, the pot goes to
\* a player at the end.
MaxTournaments == 2
TablePlayers == 2
MaxAwaits == 1
STARTING_CHIPS == 1000
Tournaments == 1..MaxTournaments

Created ==
    [pc |-> "created", players |-> 0, deck |-> 0, pot |-> 0, awaits |-> 0,
     community_cards |-> <<>>]

\* Faulty variant: every call builds its objects in the same place.
new_objects_shared(h) == 0

\* Player(...), [] and create_deck() build new objects: the references they
\* return are above every reference in use.
new_objects(h) == Len(h)

\* The heap after setup_players, setup_round and apply_blinds built their
\* n Player objects, the list and the deck above base.
heap_after_setup(h, base, n, d, rotate_index) ==
    LET order == Rotate([i \in 1..n |-> base + i], rotate_index)
    IN [i \in 1..(IF Len(h) > base + n + 2 THEN Len(h) ELSE base + n + 2) |->
          IF i \in (base + 1)..(base + n)
          THEN [chips |-> STARTING_CHIPS
                            - (IF i = order[1] THEN SMALL_BLIND
                               ELSE IF i = order[2] THEN BIG_BLIND ELSE 0),
                hand |-> hole_cards(d, n, i - base)]
          ELSE IF i = base + n + 1 THEN order
          ELSE IF i = base + n + 2 THEN after_deal(d, 2 * n)
          ELSE h[i]]

InitIsolation ==
    /\ heap = <<>>
    /\ games = [g \in Tournaments |-> Created]
    /\ EngineIdle /\ HarnessIdle /\ EvaluatorIdle

\* collect_game_result up to the first await of play_round: setup_players,
\* setup_round, apply_blinds.
collect_game_result_starts(g) ==
    /\ games[g].pc = "created"
    /\ \E d \in shuffles(create_deck), rotate_index \in 0..(TablePlayers - 1) :
         LET base == new_objects(heap)
         IN /\ heap' = heap_after_setup(heap, base, TablePlayers, d,
                                         rotate_index)
            /\ games' = [games EXCEPT ![g] =
                           [pc |-> "awaiting",
                            players |-> base + TablePlayers + 1,
                            deck |-> base + TablePlayers + 2,
                            pot |-> SMALL_BLIND + BIG_BLIND,
                            awaits |-> 0,
                            community_cards |-> <<>>]]
    /\ UNCHANGED <<engine_vars, harness_vars, evaluator_vars>>

\* collect_game_result from one await to the next, or to its return: the
\* asked player's amount is moved, then the betting goes on, or the next
\* community cards are dealt behind a burn card, or the round ends and the
\* pot is paid.
collect_game_result_resumes(g) ==
    /\ games[g].pc = "awaiting"
    /\ \E k \in 1..TablePlayers, amount \in {0, BIG_BLIND},
          then \in {"await", "deal", "end"}, w \in 1..TablePlayers :
         LET me == games[g]
             asked == heap[me.players][k]
             paid == [heap EXCEPT ![asked].chips = @ - amount]
             num == IF me.community_cards = <<>> THEN 4 ELSE 2
             dealt == deal_cards(heap[me.deck], num)
         IN CASE then = "await" ->
                   /\ me.awaits < MaxAwaits
                   /\ w = 1
                   /\ heap' = paid
                   /\ games' = [games EXCEPT ![g].pot = @ + amount,
                                             ![g].awaits = @ + 1]
              [] then = "deal" ->
                   /\ me.awaits < MaxAwaits
                   /\ Len(me.community_cards) < 5
                   /\ w = 1
                   /\ heap' = [paid EXCEPT ![me.deck] = after_deal(@, num)]
                   /\ games' = [games EXCEPT
                        ![g].pot = @ + amount,
                        ![g].awaits = @ + 1,
                        ![g].community_cards =
                            @ \o SubSeq(dealt, 2, Len(dealt))]
              [] then = "end" ->
                   /\ heap' = [paid EXCEPT ![heap[me.players][w]].chips =
                                              @ + me.pot + amount]
                   /\ games' = [games EXCEPT ![g].pot = @ + amount,
                                             ![g].pc = "done"]
    /\ UNCHANGED <<engine_vars, harness_vars, evaluator_vars>>

tournament_starts == \E g \in Tournaments : collect_game_result_starts(g)
tournament_resumes == \E g \in Tournaments : collect_game_result_resumes(g)

NextIsolation == tournament_starts \/ tournament_resumes

SpecIsolation == InitIsolation /\ [][NextIsolation]_vars

\* -------------------------------------------------------- hand evaluator
\* evaluate_hand called on a five-card hand of distinct cards.  The hands are
\* every choice of five ranks of the deck (a rank at most four times), given
\* in descending order with the suits dealt round the four suits, so that
\* equal ranks differ in suit and no hand is a flush; and every choice of
\* five different ranks in one suit.  The two hands the specification scores
\* by name are given as written there.
Ranks == {create_deck[i][1] : i \in 1..Len(create_deck)}
RankLists ==
    {r \in [1..5 -> Ranks] : (\A i \in 1..4 : r[i] >= r[i + 1]) /\ r[1] # r[5]}
mixed_suits(r) == [i \in 1..5 |-> <<r[i], Suits[1 + ((i - 1) % Len(Suits))]>>]
one_suit(r) == [i \in 1..5 |-> <<r[i], Suits[1]>>]
RoyalFlush ==
    <<<<14, "spades">>, <<13, "spades">>, <<12, "spades">>, <<11, "spades">>,
      <<10, "spades">>>>
MixedWheel ==
    <<<<14, "clubs">>, <<2, "diamonds">>, <<3, "hearts">>, <<4, "spades">>,
      <<5, "clubs">>>>
FiveCardHands ==
    {mixed_suits(r) : r \in RankLists}
    \cup {one_suit(r) : r \in {q \in RankLists : \A i \in 1..4 : q[i] > q[i + 1]}}
    \cup {RoyalFlush, MixedWheel}

InitEvaluator ==
    /\ given_cards \in FiveCardHands
    /\ returned_score = <<>>
    /\ EngineIdle /\ HarnessIdle /\ IsolationIdle

evaluate_hand_returns ==
    /\ Len(given_cards) = 5
    /\ returned_score = <<>>
    /\ returned_score' = evaluate_hand(given_cards)
    /\ UNCHANGED <<given_cards, engine_vars, harness_vars, isolation_vars>>

SpecEvaluator == InitEvaluator /\ [][evaluate_hand_returns]_vars

\* best_hand_from_seven called on two hole cards and a board of five from the
\* top of the deck, handed over in any of the orders of reorderings.
reorderings(s) ==
    {Rotate(s, k) : k \in 0..(Len(s) - 1)}
    \cup {[i \in 1..Len(s) |-> s[Len(s) + 1 - i]]}
    \cup {[i \in 1..Len(s) |->
             IF i = k THEN s[k + 1] ELSE IF i = k + 1 THEN s[k] ELSE s[i]] :
          k \in 1..(Len(s) - 1)}
SevenCardHands ==
    UNION {reorderings(SetToSeq(hole) \o SetToSeq(board)) :
             hole \in {c \in SUBSET HoleDeck : Cardinality(c) = 2},
             board \in {c \in SUBSET BoardDeck : Cardinality(c) = 5}}

InitBestOfSeven ==
    /\ given_cards \in SevenCardHands
    /\ returned_score = <<>>
    /\ EngineIdle /\ HarnessIdle /\ IsolationIdle

best_hand_from_seven_returns ==
    /\ Len(given_cards) = 7
    /\ returned_score = <<>>
    /\ returned_score' = best_hand_from_seven(given_cards)
    /\ UNCHANGED <<given_cards, engine_vars, harness_vars, isolation_vars>>

SpecBestOfSeven == InitBestOfSeven /\ [][best_hand_from_seven_returns]_vars

\* The shuffle of the specification's end-to-end scenario: the first seat is
\* dealt the aces of spades and hearts, the second the kings of spades and
\* hearts, and the board comes as A-diamonds A-clubs 2-spades / 3-hearts /
\* 4-diamonds behind burn cards.  scenario_drawn lists the cards in the order
\* they leave the deck for two players.
scenario_drawn ==
    <<<<14, "spades">>, <<13, "spades">>, <<14, "hearts">>, <<13, "hearts">>,
      <<7, "clubs">>, <<14, "diamonds">>, <<14, "clubs">>, <<2, "spades">>,
      <<8, "clubs">>, <<3, "hearts">>, <<9, "clubs">>, <<4, "diamonds">>>>
scenario_deck ==
    SelectSeq(create_deck, LAMBDA c : c \notin Range(scenario_drawn))
    \o [i \in 1..Len(scenario_drawn) |->
          scenario_drawn[Len(scenario_drawn) + 1 - i]]

\* One round of play_round between the two on that shuffle, from any stacks
\* within the bounds, with every betting history.
InitScenario ==
    /\ players = SubSeq(Seats, 1, 2)
    /\ deck = scenario_deck
    /\ \E st \in [Range(SubSeq(Seats, 1, 2)) -> Stacks] :
         /\ SumOver(st, DOMAIN st) <= MaxTableUnits * ChipUnit
         /\ chips = [p \in PlayerIds |-> IF p \in DOMAIN st THEN st[p] ELSE 0]
    /\ round_count = 0
    /\ max_rounds = 1
    /\ eliminated_players = <<>>
    /\ round_start_chips = chips
    /\ small_blind_player = NoPlayer
    /\ big_blind_player = NoPlayer
    /\ pot = 0
    /\ current_bet = 0
    /\ player_bets = NoBets
    /\ active_players = <<>>
    /\ players_to_act = <<>>
    /\ players_actions = NoActions
    /\ action_response = NoResponse
    /\ player = NoPlayer
    /\ phase = "none"
    /\ hand = NoHands
    /\ community_cards = <<>>
    /\ winners = <<>>
    /\ winner = NoPlayer
    /\ final_rankings = <<>>
    /\ pc = "play_round"
    /\ burned = <<>>
    /\ starting_pot = 0
    /\ HarnessIdle /\ IsolationIdle /\ EvaluatorIdle

SpecScenario == InitScenario /\ [][Next]_vars

\* ------------------------------------------------- the deck of one round
\* The deck through one play_round at a table of 2..MaxDeckPlayers seats
\* (numbered from 1): setup_round deals the hole cards from the shuffle drawn
\* at the start, and after each betting round, whose only trace here is who
\* is still active, play_round burns a card and deals the next community
\* cards if more than one player is active.  list.pop() on the empty deck
\* raises IndexError.
MaxDeckPlayers == 23

InitDeck ==
    /\ \E n \in 2..MaxDeckPlayers :
         /\ players = [i \in 1..n |-> i]
         /\ hand = [i \in 1..n |-> <<>>]
    /\ deck \in shuffles(create_deck)
    /\ burned = <<>>
    /\ starting_pot = 0
    /\ community_cards = <<>>
    /\ active_players = <<>>
    /\ phase = "none"
    /\ pc = "setup_round"
    /\ chips = NoBets
    /\ round_count = 0
    /\ max_rounds = 1
    /\ eliminated_players = <<>>
    /\ round_start_chips = NoBets
    /\ small_blind_player = NoPlayer
    /\ big_blind_player = NoPlayer
    /\ pot = 0
    /\ current_bet = 0
    /\ player_bets = NoBets
    /\ players_to_act = <<>>
    /\ players_actions = NoActions
    /\ action_response = NoResponse
    /\ player = NoPlayer
    /\ winners = <<>>
    /\ winner = NoPlayer
    /\ final_rankings = <<>>
    /\ HarnessIdle /\ IsolationIdle /\ EvaluatorIdle

\* setup_round, lines 116-123, and the pre-flop seating of play_round.
setup_round ==
    /\ pc = "setup_round"
    /\ IF Len(deck) < 2 * Len(players)
       THEN /\ pc' = "IndexError"
            /\ deck' = <<>>
            /\ UNCHANGED <<hand, active_players, phase>>
       ELSE /\ hand' = [i \in 1..Len(players) |->
                          hole_cards(deck, Len(players), i)]
            /\ deck' = after_deal(deck, 2 * Len(players))
            /\ active_players' = Rotate(players, 2)
            /\ phase' = "pre_flop"
            /\ pc' = "betting_round"
    /\ UNCHANGED <<players, chips, round_count, max_rounds, eliminated_players,
                   round_start_chips, small_blind_player, big_blind_player,
                   pot, current_bet, player_bets, players_to_act,
                   players_actions, action_response, player, community_cards,
                   winners, winner, final_rankings, burned, starting_pot>>
    /\ UNCHANGED <<harness_vars, isolation_vars, evaluator_vars>>

\* play_round, lines 376-423: the betting round of phase leaves everybody or
\* one player active; then the burn card and the community cards of the next
\* phase, popped one by one.
deal_community ==
    /\ pc = "betting_round"
    /\ phase \in {"pre_flop", "flop", "turn"}
    /\ \E left \in {active_players, SubSeq(active_players, 1, 1)} :
         /\ active_players' = left
         /\ IF Len(left) > 1
            THEN LET wanted == 1 + cards_after(phase)
                     popped == deal_cards(deck, Min2(wanted, Len(deck)))
                 IN /\ burned' = IF popped = <<>> THEN burned
                               ELSE Append(burned, popped[1])
                    /\ community_cards' =
                          community_cards \o SubSeq(popped, 2, Len(popped))
                    /\ deck' = after_deal(deck, Len(popped))
                    /\ pc' = IF Len(popped) < wanted THEN "IndexError"
                             ELSE "betting_round"
            ELSE /\ pc' = "betting_round"
                 /\ UNCHANGED <<deck, burned, community_cards>>
    /\ phase' = following_phase(phase)
    /\ UNCHANGED <<players, chips, round_count, max_rounds, eliminated_players,
                   round_start_chips, small_blind_player, big_blind_player,
                   pot, current_bet, player_bets, players_to_act,
                   players_actions, action_response, player, hand, winners,
                   winner, final_rankings, starting_pot>>
    /\ UNCHANGED <<harness_vars, isolation_vars, evaluator_vars>>

NextDeck == setup_round \/ deal_community

SpecDeck == InitDeck /\ [][NextDeck]_vars

\* ------------------------------------------------ interactive single hand
\* src/api/main.py: play_round(num_opponents) plays one hand between the
\* human player, seat 1, and the scripted opponents.  active_players is a
\* Python set; the model keeps it as a list in seat order and lets every
\* iteration over it take any order.  The cards stay face down: any
\* non-empty group of the players left can tie at the showdown.
API_STARTING_CHIPS == 1000
AI_BET == 10
\* The human's bet or raise is 1..MaxHumanBet chips above the amount to call.
MaxHumanBet == 2
Human == Seats[1]

orderings(S) ==
    {s \in [1..Cardinality(S) -> S] : \A i, j \in DOMAIN s : i # j => s[i] # s[j]}

\* get_player_action: what the player can answer, as <<action, amount>>; the
\* parameter the source calls current_bet receives the amount to call.
get_player_action(p, to_call, player_chips) ==
    IF p = Human
    THEN IF to_call = 0
         THEN {<<"check", 0>>, <<"fold", 0>>}
              \cup {<<"bet", amount>> :
                      amount \in {a \in 1..MaxHumanBet : a <= player_chips}}
         ELSE {<<"call", to_call>>, <<"fold", 0>>}
              \cup {<<"raise", amount>> :
                      amount \in {to_call + k : k \in 1..MaxHumanBet}
                                 \cap (0..player_chips)}
    ELSE IF to_call = 0
         THEN {<<"check", 0>>, <<"bet", Min2(AI_BET, player_chips)>>}
         ELSE {<<"call", to_call>>, <<"fold", 0>>}

InitInteractive ==
    /\ \E num_opponents \in 1..(Len(Seats) - 1) :
         /\ players = SubSeq(Seats, 1, 1 + num_opponents)
         /\ chips = [p \in PlayerIds |->
                       IF p \in Range(SubSeq(Seats, 1, 1 + num_opponents))
                       THEN API_STARTING_CHIPS ELSE 0]
    /\ active_players = players
    /\ round_count = 0
    /\ max_rounds = 0
    /\ eliminated_players = <<>>
    /\ round_start_chips = chips
    /\ small_blind_player = NoPlayer
    /\ big_blind_player = NoPlayer
    /\ pot = 0
    /\ current_bet = 0
    /\ player_bets = NoBets
    /\ players_to_act = <<>>
    /\ players_actions = NoActions
    /\ action_response = NoResponse
    /\ player = NoPlayer
    /\ phase = "none"
    /\ hand = NoHands
    /\ community_cards = <<>>
    /\ winners = <<>>
    /\ winner = NoPlayer
    /\ final_rankings = <<>>
    /\ pc = "play_round"
    /\ deck = <<>>
    /\ burned = <<>>
    /\ starting_pot = 0
    /\ HarnessIdle /\ IsolationIdle /\ EvaluatorIdle

\* play_round, lines 426-446: the rotation and the blinds.
api_blinds ==
    /\ pc = "play_round"
    /\ \E rotate_index \in 0..(Len(players) - 1) :
         LET rotated == Rotate(players, rotate_index)
         IN /\ players' = rotated
            /\ small_blind_player' = rotated[1]
            /\ big_blind_player' = rotated[2]
            /\ chips' = [chips EXCEPT ![rotated[1]] = @ - SMALL_BLIND,
                                      ![rotated[2]] = @ - BIG_BLIND]
    /\ pot' = SMALL_BLIND + BIG_BLIND
    /\ current_bet' = BIG_BLIND
    /\ phase' = "pre_flop"
    /\ pc' = "betting_round"
    /\ UNCHANGED <<round_count, max_rounds, eliminated_players,
                   round_start_chips, player_bets, active_players,
                   players_to_act, players_actions, action_response, player,
                   hand, community_cards, winners, winner, final_rankings,
                   deck, burned, starting_pot>>
    /\ UNCHANGED <<harness_vars, isolation_vars, evaluator_vars>>

\* betting_round, lines 330-337: the queue is list(active_players), the
\* bets are the blinds pre-flop and zero afterwards.
api_betting_round_enter ==
    /\ pc = "betting_round"
    /\ players_to_act' \in orderings(Range(active_players))
    /\ player_bets' = IF phase = "pre_flop" THEN blind_bets ELSE NoBets
    /\ pc' = "loop"
    /\ UNCHANGED <<players, chips, round_count, max_rounds, eliminated_players,
                   round_start_chips, small_blind_player, big_blind_player,
                   pot, current_bet, active_players, players_actions,
                   action_response, player, phase, hand, community_cards,
                   winners, winner, final_rankings, deck, burned,
                   starting_pot>>
    /\ UNCHANGED <<harness_vars, isolation_vars, evaluator_vars>>

\* betting_round, lines 339-388: one iteration of the while loop.
api_betting_iteration ==
    /\ pc = "loop"
    /\ players_to_act # <<>>
    /\ LET p == Head(players_to_act)
           rest == Tail(players_to_act)
           to_call == current_bet - player_bets[p]
       IN /\ player' = p
          /\ IF p \notin Range(active_players)
             THEN /\ players_to_act' = rest
                  /\ pc' = "loop"
                  /\ UNCHANGED <<chips, pot, current_bet, player_bets,
                                 active_players>>
             ELSE \E answer \in (IF to_call >= chips[p]
                                 THEN {<<"call", chips[p]>>}
                                 ELSE get_player_action(p, to_call, chips[p])) :
                    LET action == answer[1]
                        amount == answer[2]
                    IN CASE action = "fold" ->
                              /\ active_players' =
                                   SelectSeq(active_players, LAMBDA q : q # p)
                              /\ players_to_act' = rest
                              /\ pc' = IF Len(active_players) = 2
                                       THEN "returned" ELSE "loop"
                              /\ UNCHANGED <<chips, pot, current_bet,
                                             player_bets>>
                         [] action = "check" ->
                              /\ players_to_act' = rest
                              /\ pc' = "loop"
                              /\ UNCHANGED <<chips, pot, current_bet,
                                             player_bets, active_players>>
                         [] action = "call" ->
                              /\ player_bets' =
                                   [player_bets EXCEPT ![p] = @ + amount]
                              /\ chips' = [chips EXCEPT ![p] = @ - amount]
                              /\ pot' = pot + amount
                              /\ players_to_act' = rest
                              /\ pc' = "loop"
                              /\ UNCHANGED <<current_bet, active_players>>
                         [] action \in {"bet", "raise"} ->
                              /\ player_bets' =
                                   [player_bets EXCEPT ![p] = @ + amount]
                              /\ chips' = [chips EXCEPT ![p] = @ - amount]
                              /\ pot' = pot + amount
                              /\ current_bet' = player_bets[p] + amount
                              /\ \E added \in orderings(
                                     {q \in Range(active_players) :
                                        /\ q # p
                                        /\ q \notin Range(rest)
                                        /\ player_bets[q]
                                             < player_bets[p] + amount}) :
                                   players_to_act' = rest \o added
                              /\ pc' = "loop"
                              /\ UNCHANGED active_players
    /\ UNCHANGED <<players, round_count, max_rounds, eliminated_players,
                   round_start_chips, small_blind_player, big_blind_player,
                   players_actions, action_response, phase, hand,
                   community_cards, winners, winner, final_rankings, deck,
                   burned, starting_pot>>
    /\ UNCHANGED <<harness_vars, isolation_vars, evaluator_vars>>

\* betting_round, lines 339 and 390-395: the queue is empty, the round
\* returns the pot, the bet and the players left.
api_betting_round_returns ==
    /\ pc = "loop"
    /\ players_to_act = <<>>
    /\ pc' = "returned"
    /\ UNCHANGED <<players, chips, round_count, max_rounds, eliminated_players,
                   round_start_chips, small_blind_player, big_blind_player,
                   pot, current_bet, player_bets, active_players,
                   players_to_act, players_actions, action_response, player,
                   phase, hand, community_cards, winners, winner,
                   final_rankings, deck, burned, starting_pot>>
    /\ UNCHANGED <<harness_vars, isolation_vars, evaluator_vars>>

\* play_round, lines 456-481: with more than one player left the next
\* phase's betting round starts from a bet of zero.
api_next_phase ==
    /\ pc = "returned"
    /\ phase \in {"pre_flop", "flop", "turn"}
    /\ Len(active_players) > 1
    /\ phase' = following_phase(phase)
    /\ current_bet' = 0
    /\ pc' = "betting_round"
    /\ UNCHANGED <<players, chips, round_count, max_rounds, eliminated_players,
                   round_start_chips, small_blind_player, big_blind_player,
                   pot, player_bets, active_players, players_to_act,
                   players_actions, action_response, player, hand,
                   community_cards, winners, winner, final_rankings, deck,
                   burned, starting_pot>>
    /\ UNCHANGED <<harness_vars, isolation_vars, evaluator_vars>>

\* play_round, lines 513-519: each of the tied winners gets pot // len(winners).
api_split(winners_, amount) ==
    [p \in PlayerIds |->
       IF p \in Range(winners_)
       THEN chips[p] + (amount \div Len(winners_))
       ELSE chips[p]]

\* play_round, lines 483-519: the last player left, the one winner of the
\* showdown, or the tied winners are paid.
api_settle ==
    /\ pc = "returned"
    /\ phase = "river" \/ Len(active_players) = 1
    /\ IF Len(active_players) = 1
       THEN /\ chips' = [chips EXCEPT ![active_players[1]] = @ + pot]
            /\ winners' = <<>>
       ELSE \E w \in SubLists(active_players) :
               /\ winners' = w
               /\ chips' = IF Len(w) = 1
                           THEN [chips EXCEPT ![w[1]] = @ + pot]
                           ELSE api_split(w, pot)
    /\ pc' = "hand_over"
    /\ UNCHANGED <<players, round_count, max_rounds, eliminated_players,
                   round_start_chips, small_blind_player, big_blind_player,
                   pot, current_bet, player_bets, active_players,
                   players_to_act, players_actions, action_response, player,
                   phase, hand, community_cards, winner, final_rankings, deck,
                   burned, starting_pot>>
    /\ UNCHANGED <<harness_vars, isolation_vars, evaluator_vars>>

NextInteractive ==
    \/ api_blinds
    \/ api_betting_round_enter
    \/ api_betting_iteration
    \/ api_betting_round_returns
    \/ api_next_phase
    \/ api_settle

SpecInteractive == InitInteractive /\ [][NextInteractive]_vars

\* ================================================================ claims
\* The raise being processed in this step, and the caps the spec names.
RaiseStep == pc = "awaiting" /\ action_response'.action = "raise"
ProposedTotal == player_bets[player] + action_response'.amount
OwnTotal == player_bets[player] + chips[player]
OpponentTotals ==
    {player_bets[q] + chips[q] : q \in Range(active_players) \ {player}}
SmallestOpponentCap == Min2(OwnTotal, MinOf(OpponentTotals))
LargestOpponentCap == Min2(OwnTotal, MaxOf(OpponentTotals))

\* C1: chips are conserved through play_round: after the blinds, after every
\* betting action and after settlement the players' chips plus the pot equal
\* the chips the players held when the round began (the pot is 0 once the
\* round is settled).
C1_ChipConservation ==
    SumOver(chips, PlayerIds) + pot = SumOver(round_start_chips, PlayerIds)

\* C1 witness: a round was settled and chips changed hands.
C1_Witness ==
    /\ pc = "round_done"
    /\ chips # round_start_chips
    /\ \E p \in PlayerIds : chips[p] % ChipUnit # 0

\* C2 (as claimed): every player's chip count is non-negative in every state.
C2_ChipsNonNegative == \A p \in PlayerIds : chips[p] >= 0

\* C3: a RAISE leaves the player's contribution at min(proposed total, own
\* contribution + chips, smallest contribution + chips among the other active
\* players), and exactly the difference to the previous contribution moves
\* from the player's chips to the pot.
C3_RaiseCapping ==
    [][RaiseStep =>
        LET e == Min2(ProposedTotal, SmallestOpponentCap)
            moved == e - player_bets[player]
        IN /\ player_bets'[player] = e
           /\ chips'[player] = chips[player] - moved
           /\ pot' = pot + moved
           /\ \A q \in PlayerIds \ {player} :
                chips'[q] = chips[q] /\ player_bets'[q] = player_bets[q]]_vars

\* C3 witness: a raise was processed whose proposal was cut and which moved
\* chips into the pot.
C3_Witness ==
    /\ action_response.action = "raise"
    /\ action_response.actual_amount_contributed > 0
    /\ action_response.actual_amount_contributed < action_response.amount

\* C4 (as claimed): a RAISE proposing more than min(own maximum, the LARGEST
\* maximum among the other active players) is truncated to exactly that value.
C4_CapIsLargestOpponent ==
    [][RaiseStep /\ ProposedTotal > LargestOpponentCap =>
        player_bets'[player] = LargestOpponentCap]_vars

\* C4 (amended): a RAISE proposing more than min(own maximum, the SMALLEST
\* maximum among the other active players) is truncated to exactly that value.
C4_CapIsSmallestOpponent ==
    [][RaiseStep /\ ProposedTotal > SmallestOpponentCap =>
        player_bets'[player] = SmallestOpponentCap]_vars

\* C4 witness: a raise against two opponents of different maxima was cut to
\* the smaller one, below the larger one and below the raiser's own maximum.
C4_Witness ==
    /\ action_response.action = "raise"
    /\ Len(active_players) = 3
    /\ LET p == action_response.player
           totals == {player_bets[q] + chips[q] : q \in Range(active_players) \ {p}}
       IN /\ Cardinality(totals) = 2
          /\ player_bets[p] = MinOf(totals)
          /\ player_bets[p] + chips[p] >= MaxOf(totals)
          /\ player_bets[p] - action_response.actual_amount_contributed
               + action_response.amount >= MaxOf(totals)

\* C5 (as claimed): no player's contribution in a betting round exceeds the
\* chips the player held when the round began.
C5_ContributionWithinStartingStack ==
    \A p \in PlayerIds : player_bets[p] <= round_start_chips[p]

\* C6: a RAISE whose capped total exceeds the current highest bet becomes the
\* highest bet, and right after it every other active player who contributed
\* less is in the to-act queue, whether or not the player acted before.
C6_Reopening ==
    [][RaiseStep /\ player_bets'[player] > current_bet =>
        /\ current_bet' = player_bets'[player]
        /\ \A q \in Range(active_players') \ {player} :
             player_bets'[q] < current_bet' => q \in Range(players_to_act')]_vars

\* C6 witness: after a raise, a player who had already acted in this betting
\* round is in the queue again.
C6_Witness ==
    /\ action_response.action = "raise"
    /\ \E q \in Range(players_to_act) :
         /\ players_actions[q].player = q
         /\ player_bets[q] < current_bet
         /\ q # action_response.player

\* C7: a CHECK, a CALL, a FOLD, or a RAISE whose capped total does not exceed
\* the current highest bet adds no player to the to-act queue.
C7_NoReopening ==
    [][pc = "awaiting"
         /\ ~(action_response'.action = "raise"
              /\ player_bets'[player] > current_bet) =>
        players_to_act' = players_to_act]_vars

\* C7 witness: a raise was processed that did not reopen the action: an
\* active opponent who contributed less than the highest bet is not queued.
C7_Witness ==
    /\ action_response.action = "raise"
    /\ action_response.amount > 0
    /\ \E q \in Range(active_players) \ {action_response.player} :
         player_bets[q] < current_bet /\ q \notin Range(players_to_act)

\* C8 (as claimed): the decision provider is never awaited for a player whose
\* chips are at most the amount required to call.
C8_NoQueryOnShortfall ==
    pc = "awaiting" => chips[player] > current_bet - player_bets[player]

\* C9: betting_round entered with every active player at 0 chips returns at
\* once: no provider is awaited, the pot, the chips and the active players
\* are unchanged and no action is recorded.
C9_AllInShortCircuit ==
    [][pc = "betting_round" /\ (\A p \in Range(active_players) : chips[p] = 0) =>
        /\ pc' = "returned"
        /\ pot' = pot
        /\ chips' = chips
        /\ active_players' = active_players
        /\ players_actions' = NoActions]_vars

\* C9 witness: the pre-flop betting round returned with nothing recorded and
\* two or more active players, all at 0 chips.
C9_Witness ==
    /\ pc = "returned"
    /\ phase = "pre_flop"
    /\ Len(active_players) >= 2
    /\ \A p \in Range(active_players) : chips[p] = 0
    /\ players_actions = NoActions

\* C10: a FOLD that leaves one active player ends the betting round at once,
\* whatever the queue holds, and from then on no betting round of this round
\* is entered and no provider awaited.
C10_FoldToOne ==
    [][/\ (pc = "awaiting" /\ Len(active_players') = 1 => pc' = "returned")
       /\ (Len(active_players) = 1 => pc' \in {"returned", "round_done"})]_vars

\* C10 witness: the betting round returned on a fold with one active player
\* left and players still queued.
C10_Witness ==
    /\ pc = "returned"
    /\ action_response.action = "fold"
    /\ Len(active_players) = 1
    /\ players_to_act # <<>>

\* C11 (as claimed): when betting_round returns with two or more active
\* players because the to-act queue emptied, every active player has
\* contributed exactly the current highest bet or has 0 chips.
C11_AllMatchedAtReturn ==
    [][(/\ pc \in {"loop", "awaiting"}
        /\ pc' = "returned"
        /\ players_to_act' = <<>>
        /\ Len(active_players') >= 2) =>
        \A p \in Range(active_players') :
           player_bets'[p] = current_bet' \/ chips'[p] = 0]_vars

\* C12: a CALL moves exactly min(current highest bet - own contribution, own
\* chips) from the player to the pot whatever amount the provider proposed,
\* CHECK and FOLD move nothing, and no response takes more chips than the
\* player holds.
C12_CallClamping ==
    [][pc = "awaiting" =>
        LET to_call == current_bet - player_bets[player]
            moved == IF action_response'.action = "call"
                     THEN (IF to_call <= chips[player] THEN to_call
                           ELSE chips[player])
                     ELSE 0
        IN /\ action_response'.actual_amount_contributed
                <= (IF chips[player] > 0 THEN chips[player] ELSE 0)
           /\ action_response'.action \in {"call", "check", "fold"} =>
                /\ action_response'.actual_amount_contributed = moved
                /\ chips' = [chips EXCEPT ![player] = @ - moved]
                /\ player_bets' = [player_bets EXCEPT ![player] = @ + moved]
                /\ pot' = pot + moved]_vars

\* C12 witness: a call was processed that took the player's last chips, fewer
\* than the amount proposed and fewer than the amount outstanding.
C12_Witness ==
    /\ action_response.action = "call"
    /\ action_response.actual_amount_contributed > 0
    /\ action_response.actual_amount_contributed < action_response.amount
    /\ chips[action_response.player] = 0
    /\ player_bets[action_response.player] < current_bet

\* C13: when one active player remains at settlement, that player's chips
\* grow by exactly the pot, no other player's chips change and no showdown
\* is held.
C13_SoleSurvivorTakesPot ==
    [][pc = "returned" /\ phase = "river" /\ Len(active_players) = 1 =>
        /\ chips' = [chips EXCEPT ![active_players[1]] = @ + pot]
        /\ winners' = <<>>
        /\ pc' = "round_done"]_vars

\* C13 witness: a round ended without a showdown and a player holds more
\* chips than at the round's start.
C13_Witness ==
    /\ pc = "round_done"
    /\ winners = <<>>
    /\ \E p \in PlayerIds : chips[p] > round_start_chips[p]

\* Lexicographic comparison of (category, tiebreakers) read as one list.
Flat(score) == <<score[1]>> \o score[2]
LexGreater(x, y) ==
    \E i \in 1..Len(x) :
       /\ i <= Len(y) => x[i] > y[i]
       /\ \A j \in 1..(i - 1) : j <= Len(y) /\ x[j] = y[j]
BestOfSeven ==
    {<<p, Flat(best_hand_from_seven(hand[p] \o community_cards))>> :
        p \in Range(active_players)}

\* C14: at a showdown of two or more active players the winners are not
\* empty and are exactly the active players whose best hand of the seven
\* cards is not exceeded, lexicographically, by any active player's.
C14_ShowdownWinners ==
    [][(/\ pc = "returned"
        /\ phase = "river"
        /\ Len(active_players) >= 2
        /\ community_cards # <<>>) =>
        LET best == BestOfSeven
        IN /\ winners' # <<>>
           /\ \A p \in PlayerIds :
                p \in Range(winners') <=>
                  \E mine \in best :
                     /\ mine[1] = p
                     /\ \A other \in best : ~LexGreater(other[2], mine[2])]_vars

\* C14 witness: a showdown of three players was won by two of them, tied.
C14_Witness ==
    /\ pc = "round_done"
    /\ community_cards # <<>>
    /\ Len(players) = 3
    /\ Len(winners) = 2
    /\ hand[winners[1]] # hand[winners[2]]

\* C15: a showdown credits winner i of the k >= 1 winners with floor(pot/k),
\* plus one chip if i <= pot mod k, nobody else is credited, and the credits
\* sum to the pot.
C15_SplitPotExact ==
    [][pc = "returned" /\ phase = "river" /\ Len(active_players) >= 2 =>
        LET k == Len(winners')
            credit == [p \in PlayerIds |-> chips'[p] - chips[p]]
        IN /\ k >= 1
           /\ \A i \in 1..k :
                credit[winners'[i]] =
                  (pot \div k) + (IF i <= pot % k THEN 1 ELSE 0)
           /\ \A p \in PlayerIds \ Range(winners') : credit[p] = 0
           /\ SumOver(credit, PlayerIds) = pot]_vars

\* C15 witness: a pot was split among three winners and did not divide
\* evenly: the first winner got a chip more than the last.
C15_Witness ==
    /\ pc = "round_done"
    /\ Len(winners) = 3
    /\ chips[winners[1]] - round_start_chips[winners[1]]
         # chips[winners[3]] - round_start_chips[winners[3]]
    /\ \E p \in PlayerIds : chips[p] % ChipUnit # 0

\* The betting of the round is over: one active player is left, or all
\* active players have 0 chips.
PhaseRank(ph) ==
    CASE ph = "none" -> 0
      [] ph = "pre_flop" -> 1
      [] ph = "flop" -> 2
      [] ph = "turn" -> 3
      [] ph = "river" -> 4
InRound == pc \in {"betting_round", "loop", "awaiting", "returned"}
BettingOver ==
    /\ InRound
    /\ \/ Len(active_players) <= 1
       \/ \A p \in Range(active_players) : chips[p] = 0

\* C16: within a round the phase only moves to the next of PRE_FLOP, FLOP,
\* TURN, RIVER, a betting round is entered only on such a move, once the
\* betting is over no provider is awaited until the round is settled, and
\* the round is settled only after the river, which ends it.
C16_PhaseOrder ==
    [][/\ phase' # phase =>
            \/ PhaseRank(phase') = PhaseRank(phase) + 1
            \/ phase = "river" /\ phase' = "none" /\ pc' = "round_done"
       /\ pc' = "betting_round" => phase' # phase
       /\ BettingOver => pc' # "awaiting" /\ (BettingOver' \/ pc' = "round_done")
       /\ pc' = "round_done" =>
            pc = "returned" /\ phase = "river" /\ phase' = "none"
       /\ pc = "round_done" => pc' \notin {"round_done", "returned"}]_vars

\* C16 witness: the turn's betting was skipped, after earlier betting, with
\* two or more active players all at 0 chips.
C16_Witness ==
    /\ pc = "returned"
    /\ phase = "turn"
    /\ Len(active_players) >= 2
    /\ \A p \in Range(active_players) : chips[p] = 0
    /\ players_actions # NoActions
    /\ action_response = NoResponse

\* C17: a round is played only while rounds_played < max_rounds and two or
\* more players are live, rounds_played never exceeds max_rounds, and once
\* the loop is left fewer than two players are live or rounds_played equals
\* max_rounds.
C17_TournamentLoop ==
    /\ pc = "play_round" \/ InRound \/ pc = "round_done" =>
         round_count < max_rounds
    /\ pc = "play_round" => Len(players) >= 2
    /\ round_count <= max_rounds
    /\ pc \in {"game_over", "done"} =>
         Len(players) < 2 \/ round_count = max_rounds

\* C17 witness: a tournament ended at its round cap with two live players,
\* after two rounds.
C17_Witness ==
    /\ pc = "done"
    /\ round_count = max_rounds
    /\ round_count >= 2
    /\ Len(players) >= 2

\* C18 (as claimed): between rounds every player who was seated is in exactly
\* one of the live list and the eliminated list, every live player has
\* chips > 0, every eliminated player left with exactly 0 chips, and no
\* eliminated player is active in a round.
C18_Elimination ==
    /\ \A p \in PlayerIds :
         ~(p \in Range(players) /\ p \in Range(eliminated_players))
    /\ pc \in {"play_round", "game_over", "done"} =>
         /\ \A p \in PlayerIds :
              round_start_chips[p] > 0 =>
                p \in Range(players) \/ p \in Range(eliminated_players)
         /\ \A p \in Range(players) : chips[p] > 0
    /\ \A p \in Range(eliminated_players) : chips[p] = 0
    /\ Range(active_players) \cap Range(eliminated_players) = {}

\* C19: within a round the active players after a step are among those
\* before it, a player leaves only by that player's own FOLD, and the live
\* list after a step is among the live list before it.
C19_ActiveNeverGrows ==
    [][/\ InRound =>
            /\ pc' # "round_done" =>
                 /\ Range(active_players') \subseteq Range(active_players)
                 /\ Range(active_players') # Range(active_players) =>
                      /\ pc = "awaiting"
                      /\ action_response'.action = "fold"
                      /\ Range(active_players') =
                           Range(active_players) \ {player}
       /\ Range(players') \subseteq Range(players)]_vars

\* C19 witness: the flop is played by two of the three players of the round.
C19_Witness ==
    /\ pc = "awaiting"
    /\ phase = "flop"
    /\ Len(players) = 3
    /\ Len(active_players) = 2

\* C20: when the tournament has ended the live list is not empty, and the
\* result's final_rankings lists exactly the live players in non-increasing
\* order of chips and its winner is a live player no live player has more
\* chips than.
C20_FinalRanking ==
    /\ pc \in {"game_over", "done", "IndexError"} => players # <<>>
    /\ pc = "done" =>
         /\ Len(final_rankings) = Len(players)
         /\ Range(final_rankings) = Range(players)
         /\ \A i \in 1..(Len(final_rankings) - 1) :
              chips[final_rankings[i]] >= chips[final_rankings[i + 1]]
         /\ winner \in Range(players)
         /\ \A p \in Range(players) : chips[p] <= chips[winner]

\* C20 witness: a tournament ended with two live players whom the ranking
\* lists in another order than the live list.
C20_Witness ==
    /\ pc = "done"
    /\ Len(players) = 2
    /\ final_rankings # players
    /\ winner = final_rankings[1]

\* C21: at every moment of run_games, the tournaments that have taken the
\* semaphore and not yet given it back number at most the limit of 100.
C21_BoundedConcurrency == tasks.holding <= SEMAPHORE_LIMIT

\* The limit is reached while a further tournament waits for a permit.
C21_Witness ==
    /\ semaphore = 0
    /\ tasks.holding = SEMAPHORE_LIMIT
    /\ tasks.created > 0

\* C22: when a decision provider fails inside one tournament, the caller of
\* run_games still receives the GameResult of every other tournament, the
\* failed one being absent from them: the call never ends with the exception.
C22_FailureSparesTheOthers ==
    (/\ game_results # Pending
     /\ tasks.raised > 0
     /\ tasks.raised < n_games)
    => /\ game_results.status = "returned"
       /\ game_results.results = n_games - tasks.raised

\* What a tournament owns: its deck, its player list, the chips of its
\* players and its pot.
Owned(g) ==
    IF games[g].pc = "created" THEN <<>>
    ELSE LET list == heap[games[g].players]
         IN [deck |-> heap[games[g].deck],
             players |-> list,
             chips |-> [i \in 1..Len(list) |-> heap[list[i]].chips],
             pot |-> games[g].pot]

\* C23: tournaments are isolated: under every interleaving at the provider
\* suspension points, a step of one tournament leaves the deck, the player
\* list, the chip counts and the pot of every other tournament unchanged:
\* whatever a tournament owns changes only in that tournament's own steps.
C23_TournamentIsolation ==
    [][\A g \in Tournaments :
          Owned(g)' # Owned(g)
          => collect_game_result_starts(g) \/ collect_game_result_resumes(g)
      ]_vars

\* Two tournaments are suspended in the middle of their rounds, each having
\* moved chips and dealt community cards.
C23_Witness ==
    \E g, h \in Tournaments :
        /\ g # h
        /\ games[g].pc = "awaiting" /\ games[h].pc = "awaiting"
        /\ games[g].awaits > 0 /\ games[h].awaits > 0
        /\ games[g].community_cards # <<>> /\ games[h].community_cards # <<>>
        /\ games[g].pot > SMALL_BLIND + BIG_BLIND
        /\ games[h].pot > SMALL_BLIND + BIG_BLIND

\* The reference ranking of a five-card hand, stated on the number of cards
\* held of each rank.
Held(r) == Cardinality({i \in 1..Len(given_cards) : given_cards[i][1] = r})
HeldTimes(c) == {r \in Ranks : Held(r) = c}
OneSuit == \A i \in 1..Len(given_cards) : given_cards[i][2] = given_cards[1][2]
IsWheel == HeldTimes(1) = {14, 5, 4, 3, 2}
IsRun ==
    \/ IsWheel
    \/ \E top \in Ranks : HeldTimes(1) = {top - k : k \in 0..4}
ReferenceCategory ==
    IF IsRun /\ OneSuit THEN 8
    ELSE IF HeldTimes(4) # {} THEN 7
    ELSE IF HeldTimes(3) # {} /\ HeldTimes(2) # {} THEN 6
    ELSE IF OneSuit THEN 5
    ELSE IF IsRun THEN 4
    ELSE IF HeldTimes(3) # {} THEN 3
    ELSE IF Cardinality(HeldTimes(2)) = 2 THEN 2
    ELSE IF Cardinality(HeldTimes(2)) = 1 THEN 1
    ELSE 0
\* t lists all of the ranks of S, highest first.
Descending(t, S) ==
    /\ Len(t) = Cardinality(S)
    /\ \A i \in 1..Len(t) : t[i] \in S
    /\ \A i \in 1..(Len(t) - 1) : t[i] > t[i + 1]
ReferenceTiebreakers(category, t) ==
    CASE category = 7 ->
           \E quad \in HeldTimes(4), kicker \in HeldTimes(1) :
              t = <<quad, kicker>>
      [] category = 6 ->
           \E trips \in HeldTimes(3), pair \in HeldTimes(2) :
              t = <<trips, pair>>
      [] category = 3 ->
           \E trips \in HeldTimes(3) :
              /\ Len(t) = 3 /\ t[1] = trips
              /\ Descending(SubSeq(t, 2, 3), HeldTimes(1))
      [] category = 2 ->
           \E kicker \in HeldTimes(1) :
              /\ Len(t) = 3 /\ t[3] = kicker
              /\ Descending(SubSeq(t, 1, 2), HeldTimes(2))
      [] category = 1 ->
           \E pair \in HeldTimes(2) :
              /\ Len(t) = 4 /\ t[1] = pair
              /\ Descending(SubSeq(t, 2, 4), HeldTimes(1))
      [] category \in {4, 8} /\ IsWheel -> t = <<5, 4, 3, 2, 1>>
      [] OTHER -> Descending(t, HeldTimes(1))

\* C24: evaluate_hand agrees with the reference ranking on every five-card
\* hand of distinct cards: the category 0..8 and the tiebreakers of that
\* category (four of a kind [quad, kicker], full house [trips, pair], three of
\* a kind [trips, two kickers descending], two pair [higher pair, lower pair,
\* kicker], one pair [pair, three kickers descending], otherwise the five
\* ranks descending); the spade royal flush scores (8, [14,13,12,11,10]).
C24_EvaluateHandReference ==
    (Len(given_cards) = 5 /\ returned_score # <<>>)
    => /\ returned_score[1] = ReferenceCategory
       /\ ReferenceTiebreakers(ReferenceCategory, returned_score[2])
       /\ given_cards = RoyalFlush
          => returned_score = <<8, <<14, 13, 12, 11, 10>>>>

\* The spade royal flush has been scored.
C24_Witness ==
    /\ given_cards = RoyalFlush
    /\ returned_score = <<8, <<14, 13, 12, 11, 10>>>>

\* The straight topped by top, in the suits of the hand that was given.
StraightTo(top) == [i \in 1..5 |-> <<top + 1 - i, given_cards[i][2]>>]

\* C25: A-2-3-4-5 of mixed suits scores category 4 with tiebreakers
\* [5,4,3,2,1], and category 8 with the same tiebreakers in one suit, so the
\* wheel ranks strictly below every other straight of its category.
C25_Wheel ==
    (Len(given_cards) = 5 /\ returned_score # <<>> /\ IsWheel)
    => /\ returned_score =
             <<IF OneSuit THEN 8 ELSE 4, <<5, 4, 3, 2, 1>>>>
       /\ \A top \in Ranks :
             top >= 6
             => /\ evaluate_hand(StraightTo(top))[1] = returned_score[1]
                /\ score_greater(evaluate_hand(StraightTo(top)),
                                 returned_score)

\* The wheel of the specification's example has been scored.
C25_Witness ==
    /\ given_cards = MixedWheel
    /\ returned_score = <<4, <<5, 4, 3, 2, 1>>>>

\* The scores of the five-card subsets of the cards given, each subset taken
\* in an order of its own that does not depend on the order given.
SubsetScores ==
    {evaluate_hand(SetToSeq(five)) :
        five \in {c \in SUBSET Range(given_cards) : Cardinality(c) = 5}}

ScenarioDealt ==
    /\ hand["p1"] = <<<<14, "spades">>, <<14, "hearts">>>>
    /\ hand["p2"] = <<<<13, "spades">>, <<13, "hearts">>>>
    /\ community_cards =
         <<<<14, "diamonds">>, <<14, "clubs">>, <<2, "spades">>,
           <<3, "hearts">>, <<4, "diamonds">>>>

\* C27: A holds the aces of spades and hearts, B the kings of spades and
\* hearts, the board is A-diamonds A-clubs 2-spades 3-hearts 4-diamonds:
\* whenever both reach the showdown, after any betting history, A's best hand
\* is of category 7, A's chips grow by the entire final pot and B receives
\* nothing.
C27_ScenarioShowdown ==
    [][(/\ pc = "returned" /\ pc' = "round_done"
        /\ {"p1", "p2"} \subseteq Range(active_players))
       => /\ ScenarioDealt
          /\ best_hand_from_seven(hand["p1"] \o community_cards)[1] = 7
          /\ chips'["p1"] = chips["p1"] + pot
          /\ chips'["p2"] = chips["p2"]
      ]_vars

\* A and B alone have been to the showdown over a pot raised above the
\* blinds, and A was paid.
C27_Witness ==
    /\ pc = "round_done"
    /\ ScenarioDealt
    /\ Len(players) = 2
    /\ winners = <<"p1">>
    /\ chips["p1"] > round_start_chips["p1"] + BIG_BLIND

\* The cards out of the deck: hole cards, burn cards, community cards.
RECURSIVE Concat(_)
Concat(ss) == IF ss = <<>> THEN <<>> ELSE ss[1] \o Concat(Tail(ss))
Taken == Concat(hand) \o burned \o community_cards
NoDuplicates(s) == LET t == s IN Cardinality(Range(t)) = Len(t)

\* C28: deck integrity in one round: the deck starts as 52 distinct cards;
\* every deal takes cards from the deck's tail, so the deck only shrinks; the
\* hole, burn and community cards dealt are pairwise distinct (and, with the
\* cards left, are the 52); at most 2n+8 cards are taken, and with 2 to 22
\* players the deck is never exhausted.
C28_DeckIntegrity ==
    [][LET taken == Taken'
           gone == SubSeq(deck, Len(deck') + 1, Len(deck))
       IN /\ pc = "setup_round" => Len(deck) = 52 /\ NoDuplicates(deck)
          /\ Len(deck') <= Len(deck)
          /\ deck' = SubSeq(deck, 1, Len(deck'))
          /\ Range(taken) = Range(Taken) \cup Range(gone)
          /\ NoDuplicates(taken \o deck')
          /\ Len(taken) + Len(deck') = 52
          /\ Len(taken) <= 2 * Len(players) + 8
          /\ Len(players) \in 2..22 => pc' # "IndexError"
      ]_vars

\* Twenty-two players saw the river: the 52 cards are out, no deal failed.
C28_Witness ==
    /\ Len(players) = 22
    /\ pc = "betting_round"
    /\ phase = "river"
    /\ Len(community_cards) = 5
    /\ Len(burned) = 3
    /\ deck = <<>>

\* The step on which betting_round starts its loop.
BettingStarts == pc = "betting_round" /\ pc' = "loop"
LastTwo(s) == SubSeq(s, Len(s) - 1, Len(s))
AfterBigBlind ==
    players[(IndexOf(players, big_blind_player) % Len(players)) + 1]

\* C29: PRE_FLOP betting starts with the current highest bet at the big blind
\* (10), contributions of 5 for the small blind, 10 for the big blind and 0
\* for everyone else, the player after the big blind first to act and the two
\* blind players last; FLOP, TURN and RIVER betting start with the current
\* highest bet at 0 and every contribution at 0.
C29_PhaseInitialState ==
    [][BettingStarts =>
         IF phase = "pre_flop"
         THEN /\ current_bet' = 10
              /\ \A p \in Range(active_players) :
                    player_bets'[p] =
                       IF p = small_blind_player THEN 5
                       ELSE IF p = big_blind_player THEN 10 ELSE 0
              /\ players_to_act'[1] = AfterBigBlind
              /\ LastTwo(players_to_act') =
                    <<small_blind_player, big_blind_player>>
         ELSE /\ phase \in {"flop", "turn", "river"}
              /\ current_bet' = 0
              /\ \A p \in Range(active_players) : player_bets'[p] = 0
      ]_vars

\* Pre-flop betting has started at a table of three: the third player acts
\* before the blinds.
C29_Witness ==
    /\ pc = "loop"
    /\ phase = "pre_flop"
    /\ Len(players) = 3
    /\ players_to_act = <<players[3], small_blind_player, big_blind_player>>
    /\ player_bets[small_blind_player] = SMALL_BLIND
    /\ player_bets[big_blind_player] = BIG_BLIND
    /\ player_bets[players[3]] = 0

\* The step of apply_blinds.
BlindsPosted == pc = "play_round" /\ pc' = "betting_round"

\* C30: apply_blinds with at least 2 players: the small blind and the big
\* blind are two distinct players, adjacent in the rotated seating; exactly 5
\* chips leave the small blind and exactly 10 the big blind; the returned pot
\* is 15; every other player's chips are unchanged.
C30_ApplyBlinds ==
    [][(BlindsPosted /\ Len(players) >= 2) =>
         /\ small_blind_player' # big_blind_player'
         /\ \E k \in 0..(Len(players) - 1) : players' = Rotate(players, k)
         /\ \E i \in 1..(Len(players') - 1) :
               /\ players'[i] = small_blind_player'
               /\ players'[i + 1] = big_blind_player'
         /\ chips'[small_blind_player'] = chips[small_blind_player'] - 5
         /\ chips'[big_blind_player'] = chips[big_blind_player'] - 10
         /\ pot' = 15
         /\ \A p \in PlayerIds \ {small_blind_player', big_blind_player'} :
               chips'[p] = chips[p]
      ]_vars

\* The blinds have been posted at a table of three after a rotation: two
\* players paid, the third did not.
C30_Witness ==
    /\ pc = "betting_round"
    /\ phase = "pre_flop"
    /\ Len(players) = 3
    /\ players # SubSeq(Seats, 1, 3)
    /\ pot = 15
    /\ chips[players[1]] = round_start_chips[players[1]] - 5
    /\ chips[players[2]] = round_start_chips[players[2]] - 10
    /\ chips[players[3]] = round_start_chips[players[3]]

\* The community cards a decision of phase ph is to see.
CardsSeen(ph) ==
    CASE ph = "pre_flop" -> 0
      [] ph = "flop" -> 3
      [] ph = "turn" -> 4
      [] ph = "river" -> 5

\* C31: every decision asked in PRE_FLOP sees 0 community cards, in FLOP 3,
\* in TURN 4 and in RIVER 5; and when the settlement is a showdown between
\* two or more players, exactly 5 community cards are on the board, also
\* when betting phases were skipped because every active player was all-in.
C31_CommunityCardsPerPhase ==
    /\ pc = "awaiting" => Len(community_cards) = CardsSeen(phase)
    /\ (pc = "returned" /\ phase = "river" /\ Len(active_players) >= 2)
       => Len(community_cards) = 5

\* Two players went all-in before the flop: no betting took place after it,
\* and the showdown finds the five cards on the board.
C31_Witness ==
    /\ pc = "returned"
    /\ phase = "river"
    /\ Len(active_players) = 2
    /\ all_players_all_in(active_players)
    /\ players_actions = NoActions
    /\ Len(community_cards) = 5
    /\ Len(burned) = 3

\* The step in which betting_round processes the response it awaited.
ActionProcessed == pc = "awaiting" /\ pc' \in {"loop", "returned"}

\* C32: within a betting round the current highest bet never decreases: after
\* any processed action, a RAISE capped at or below the current highest bet
\* included, it is at least what it was before the action.
C32_CurrentBetNeverDecreases ==
    [][ActionProcessed => current_bet' >= current_bet]_vars

\* C33: within a betting round the pot never decreases and no player's
\* contribution decreases: every action's actual_amount_contributed is at
\* least 0, whatever the stacks and the (non-negative) amounts proposed.
C33_PotNeverDecreases ==
    [][ActionProcessed =>
          /\ action_response'.actual_amount_contributed >= 0
          /\ pot' >= pot
          /\ \A p \in PlayerIds : player_bets'[p] >= player_bets[p]
      ]_vars

\* C34: every betting round terminates: with finite stacks, whatever the
\* providers answer (players who raise whenever asked included), a betting
\* round whose loop is running returns after finitely many provider calls.
C34_BettingRoundTerminates ==
    (pc \in {"loop", "awaiting"}) ~> (pc = "returned")

\* A betting round of the flop has returned after a raise that the other
\* player called: both put 5 in.
C34_Witness ==
    /\ pc = "returned"
    /\ phase = "flop"
    /\ Len(active_players) = 2
    /\ current_bet = SMALL_BLIND
    /\ \A p \in Range(active_players) :
          players_actions[p].actual_amount_contributed = SMALL_BLIND

\* C35: in every state of a betting round no player is in the to-act queue
\* more than once, and the decision provider is called only for a player who
\* is active at that moment: a player who folded is never asked again.
C35_QueueWithoutDuplicates ==
    /\ pc \in {"loop", "awaiting"}
       => \A i, j \in 1..Len(players_to_act) :
             i # j => players_to_act[i] # players_to_act[j]
    /\ pc = "awaiting" => player \in Range(active_players)

\* A raise on the flop has put the player who had already acted back in the
\* queue, once.
C35_Witness ==
    /\ pc = "loop"
    /\ phase = "flop"
    /\ current_bet > 0
    /\ Len(players_to_act) = 1
    /\ players_actions[players_to_act[1]] # NotRecorded

\* C36: settlement changes only the chips of the winners: the sole survivor,
\* or the winners of the showdown.  A player that folded keeps, through every
\* later step of the round and its settlement, the chips it had when it
\* folded, and an active player that does not win keeps the chips it had
\* when the betting finished.
Settlement == pc = "returned" /\ pc' = "round_done"
SettlementWinners ==
    IF Len(active_players) = 1 THEN Range(active_players) ELSE Range(winners')
FoldedPlayers == Range(players) \ Range(active_players)
C36_SettlementPaysOnlyWinners ==
    [][/\ Settlement =>
            \A p \in PlayerIds \ SettlementWinners : chips'[p] = chips[p]
       /\ (InRound /\ pc # "betting_round") =>
            \A p \in FoldedPlayers : chips'[p] = chips[p]]_vars
C36_Witness ==
    /\ pc = "round_done"
    /\ Len(players) = 3
    /\ Len(winners) = 1
    /\ \E f \in Range(players) :
          /\ chips[f] < round_start_chips[f]
          /\ \E l \in Range(players) \ {f} :
                /\ l \notin Range(winners)
                /\ chips[l] < round_start_chips[l]
                /\ chips[l] # chips[f]

\* C37: tournament-level conservation: the chips of the live players after a
\* round and its elimination step add up to what the live players held when
\* the round started, so that from the first round on the live players hold
\* the sum of the starting stacks of all players and an eliminated player
\* takes no chips out of play.
LiveChips == SumOver(chips, Range(players))
EliminationStep == pc = "round_done" /\ pc' \in {"play_round", "game_over"}
C37_TournamentConservation ==
    [][EliminationStep =>
         LiveChips' = SumOver(round_start_chips, Range(players))]_vars

\* C38: harness progress: when no tournament fails, every one of the n_games
\* tournaments acquires the semaphore, runs and releases it, and run_games
\* returns exactly n_games GameResults with every permit given back.
AllGamesReturned ==
    /\ game_results = [status |-> "returned", results |-> n_games]
    /\ tasks = [created |-> 0, holding |-> 0, returned |-> n_games,
                raised |-> 0]
    /\ semaphore = SEMAPHORE_LIMIT
C38_HarnessProgress == [](tasks.raised = 0) => <>AllGamesReturned
C38_Witness == AllGamesReturned /\ n_games > SEMAPHORE_LIMIT

\* C39: every BettingRoundResult accounts for its pot: final_pot minus
\* starting_pot is the sum of actual_amount_contributed over the recorded
\* per-player actions, also when a player acted more than once after a raise
\* reopened the action.
BettingRoundReturns ==
    pc \in {"betting_round", "loop", "awaiting"} /\ pc' = "returned"
RecordedContributions(actions) ==
    SumOver([p \in PlayerIds |-> actions[p].actual_amount_contributed],
            PlayerIds)
C39_PotAccounting ==
    [][BettingRoundReturns =>
         pot' - starting_pot' = RecordedContributions(players_actions')]_vars

\* C40: chip conservation in the interactive single hand: after the hand,
\* also when tied winners split a pot that their number does not divide, the
\* chips of all players add up to what they were before the hand, 1000 for
\* each player.
C40_InteractiveConservation ==
    pc = "hand_over" =>
        SumOver(chips, PlayerIds) = API_STARTING_CHIPS * Len(players)

====
